---------------------------- MODULE Spec2Model ----------------------------
(***************************************************************************)
(* A model of ENSnano: the rigid-body simulation threads and their control *)
(* surface (design/data/rigid_body.rs), the file dialogs of the top bar    *)
(* (gui/top_bar.rs), the Design facade (design.rs) and the controller      *)
(* automaton of the 3D scene (scene/controller/automata.rs).               *)
(*                                                                         *)
(* Each subsystem has its own next-state relation and specification; the   *)
(* variables of the other subsystems are left unchanged by it.             *)
(***************************************************************************)
EXTENDS Integers, Sequences, FiniteSets, TLC

VARIABLES
    \* ---- design/data/rigid_body.rs ----
    rigid_body_ptr,         \* Data::rigid_body_ptr: None or the handle of a grid thread
    rigid_helix_simulator,  \* Data::rigid_helix_simulator: None or the handle of a helix thread
    threads,                \* the simulation threads ever spawned (GridsSystemThread / HelixSystemThread)
    nb_threads,             \* number of threads spawned so far
    computing,              \* the shared Arc<Mutex<bool>> handed to run()
    main_pc,                \* the thread owning Data: "idle", or blocked in rcv.recv()
    channel,                \* the mpsc channel of the poll in progress: None or the state sent
    grid_state,             \* grid positions/orientations of the design
    helix_state,            \* helix positions of the design (space_position)
    state_update,           \* RigidHelixSimulator::state_update
    sim_op,                 \* the last operation of the thread owning Data
    solve_op,               \* the last solver step followed: thread, result, state before
    strand_domains,         \* design.strands: the domains in the order read_intervals visits them
    interval_results,       \* None or the IntervalResult of the last read_intervals
    flat_design,            \* the design the flatscene reads: helix id -> extent of its strands, 0 if none
    flat_data,              \* flatscene::data::Data: design (Design2d), helices, instance_update, instance_reset
    flat_view,              \* flatscene::view::View: helices, helices_view
    helix_system,  \* None or the HelixSystem of the helix thread: clock and Brownian heap
    brn_op,  \* what was done last to the HelixSystem
    clock,  \* what Instant::now() returns, in ticks
    ptrs,  \* None or the handle of the running simulation, with the date of its last poll
    poll_pc,  \* idle, or recv while the caller waits in rcv.recv()
    poll_op,  \* what was done last with the handle, and when
    physical,  \* None or the PhysicalSystem: cross-overs, roller, springer
    spr_op,  \* None or the last step of the springer: its cross-overs and the time scale of its dt
    \* ---- gui/top_bar.rs ----
    dialoging,              \* TopBar::dialoging, the shared Arc<Mutex<bool>>
    dialogs,                \* the dialog threads ever spawned
    nb_dialogs,             \* number of dialog threads spawned so far
    file_add,               \* Requests::file_add
    file_save,              \* Requests::file_save
    dlg_op,                 \* the last file message handled by TopBar::update
    \* ---- design.rs ----
    data,                   \* Design::data: strands, helices and the two dirty flags
    view,                   \* Design::view: model matrix and its dirty flag
    controller,             \* Design::controller: the matrix before the current movement
    des_op,                 \* the last call of apply_operation and its result
    notified,               \* the last poll of view_was_updated / data_was_updated
    \* ---- scene/controller/automata.rs ----
    ctrl_state,             \* the current ControllerState and its fields
    now,                    \* Instant::now(), in ticks since the last click_date
    aut_op,                 \* the last call of input / check_timers and its Transition
    flat,                   \* the 2D flatscene: selection, candidates, cameras, split
    mediator,               \* the last call the flatscene made on the mediator
    flat_op,                \* the last consequence or notification the flatscene was given
    \* ---- scene.rs, scene/data.rs ----
    scene,                  \* Data of the 3D scene: selected, candidates; the camera pivot;
                            \* panicked once an unwrap has failed
    scn_op,                 \* the last call made on the 3D scene
    \* ---- gui/top_bar.rs: undo and redo ----
    bar,                    \* TopBar::application_state and the undo / redo slots of Requests
    queued_messages,        \* the messages queued for the top bar by the main loop
    bar_op                  \* the last batch of messages given to TopBar::update, each with
                            \* the application_state it found

simVars == <<rigid_body_ptr, rigid_helix_simulator, threads, nb_threads, computing,
             main_pc, channel, grid_state, helix_state, state_update, sim_op,
             solve_op>>

dlgVars == <<dialoging, dialogs, nb_dialogs, file_add, file_save, dlg_op>>

desVars == <<data, view, controller, des_op, notified>>

autVars == <<ctrl_state, now, aut_op>>

flatVars == <<flat, mediator, flat_op>>

scnVars == <<scene, scn_op>>

barVars == <<bar, queued_messages, bar_op>>

ivlVars == <<strand_domains, interval_results>>

helVars == <<flat_design, flat_data, flat_view>>

brnVars == <<helix_system, brn_op>>

clkVars == <<clock, ptrs, poll_pc, poll_op>>

sprVars == <<physical, spr_op>>

notSim == <<dlgVars, desVars, autVars, flatVars, scnVars, barVars, ivlVars, helVars, brnVars, clkVars, sprVars>>
notDlg == <<simVars, desVars, autVars, flatVars, scnVars, barVars, ivlVars, helVars, brnVars, clkVars, sprVars>>
notDes == <<simVars, dlgVars, autVars, flatVars, scnVars, barVars, ivlVars, helVars, brnVars, clkVars, sprVars>>
notAut == <<simVars, dlgVars, desVars, flatVars, scnVars, barVars, ivlVars, helVars, brnVars, clkVars, sprVars>>
notFlat == <<simVars, dlgVars, desVars, autVars, scnVars, barVars, ivlVars, helVars, brnVars, clkVars, sprVars>>
notScn == <<simVars, dlgVars, desVars, autVars, flatVars, barVars, ivlVars, helVars, brnVars, clkVars, sprVars>>
notBar == <<simVars, dlgVars, desVars, autVars, flatVars, scnVars, ivlVars, helVars, brnVars, clkVars, sprVars>>
notIvl == <<simVars, dlgVars, desVars, autVars, flatVars, scnVars, barVars, helVars, brnVars, clkVars, sprVars>>
notHel == <<simVars, dlgVars, desVars, autVars, flatVars, scnVars, barVars, ivlVars, brnVars, clkVars, sprVars>>
notBrn == <<simVars, dlgVars, desVars, autVars, flatVars, scnVars, barVars, ivlVars, helVars, clkVars, sprVars>>
notClk == <<simVars, dlgVars, desVars, autVars, flatVars, scnVars, barVars, ivlVars, helVars, brnVars, sprVars>>
notSpr == <<simVars, dlgVars, desVars, autVars, flatVars, scnVars, barVars, ivlVars, helVars, brnVars, clkVars>>

None == <<>>
Some(x) == <<x>>

(***************************************************************************)
(* Bounds of the model                                                     *)
(***************************************************************************)
MaxThreads == 2     \* simulation threads spawned in one behaviour
MaxSimSteps == 1    \* successful solver steps of one thread

Tid == 1..MaxThreads
SimStates == 0..MaxSimSteps

(***************************************************************************)
(* Positions are integers on one axis.  A simulated system holds the       *)
(* centre of mass of each body; a state snapshot (GridSystemState,         *)
(* RigidHelixState) carries these positions and, for each body, the vector *)
(* between its centre of mass and the origin of the grid or helix.         *)
(***************************************************************************)
CenterOfMass == 1   \* centre of mass of a body, seen from the origin of its grid or helix

\* RigidGrid::from_helices, make_rigid_helix_world_pov_interval: the position
\* of the body made for a grid or helix of the design
BodyPosition(position) == position + CenterOfMass

\* GridsSystemThread::get_state, HelixSystemThread::get_state
get_state(kind, positions) ==
    [positions |-> positions,
     center_of_mass |-> IF kind = "grid" THEN CenterOfMass ELSE -CenterOfMass]

\* Data::read_grid_system_state (variant that adds the centre of mass)
read_grid_system_state_added(state) == state.positions + state.center_of_mass

\* Data::read_grid_system_state: the position given to the grid
read_grid_system_state(state) == state.positions - state.center_of_mass

\* Data::read_rigid_helix_state: the position given to the helix
read_rigid_helix_state(state) == state.positions + state.center_of_mass

\* the snapshots of the positions of a design
Snapshots(kind) == {get_state(kind, BodyPosition(position)) : position \in SimStates}

Unborn == [kind |-> "none", pc |-> "unborn", stop |-> FALSE, sender |-> FALSE,
           val |-> 0]

(***************************************************************************)
(* GridsSystemThread::run / HelixSystemThread::run: the part executed by   *)
(* the caller.  computing is set, the thread is spawned at the head of its *)
(* loop; the pair (stop, sender) is what the thread record shares.         *)
(***************************************************************************)
Spawned(kind, init) ==
    [kind |-> kind, pc |-> "head", stop |-> FALSE, sender |-> FALSE,
     val |-> init]

Run(kind, init) ==
    /\ nb_threads < MaxThreads
    /\ nb_threads' = nb_threads + 1
    /\ threads' = [threads EXCEPT ![nb_threads + 1] = Spawned(kind, init)]
    /\ computing' = TRUE

(***************************************************************************)
(* The loop of the spawned thread:                                         *)
(*   while !*self.stop.lock().unwrap() {                                   *)
(*       if let Some(snd) = self.sender.lock().unwrap().take() { send }    *)
(*       if let Ok((_, y)) = solver.solve(..) { last_state = y.last() }    *)
(*   }                                                                     *)
(*   *computing.lock().unwrap() = false;                                   *)
(***************************************************************************)
LoopTestMutant(t) ==
    threads' = [threads EXCEPT ![t].pc = "body"]

LoopTest(t) ==
    threads' = [threads EXCEPT ![t].pc = IF threads[t].stop THEN "clear" ELSE "body"]

ThreadHead(t) ==
    /\ UNCHANGED <<notSim, solve_op>>
    /\ threads[t].pc = "head"
    /\ LoopTest(t)
    /\ UNCHANGED <<rigid_body_ptr, rigid_helix_simulator, nb_threads, computing,
                   main_pc, channel, grid_state, helix_state, state_update,
                   sim_op>>

\* if let Ok((_, y)) = solver.solve(&system) { last_state = y.last().cloned() }
SolveStepKeep(val, ok) == val

SolveStep(val, ok) == IF ok THEN val + 1 ELSE val

\* self.sender.lock().unwrap().take() (variant: the slot keeps the sender)
SenderKept(sender) == sender

\* self.sender.lock().unwrap().take(): what is left in the slot
SenderTaken(sender) == FALSE

\* if let Some(snd) = ..take() { snd.send(self.get_state()).unwrap() }
\* (variant: the sender is dropped without a send)
SendDropped(t) == channel

\* (variant: the state is sent whether or not a sender was placed)
SendUnasked(t) == Some(get_state(threads[t].kind, threads[t].val))

\* if let Some(snd) = ..take() { snd.send(self.get_state()).unwrap() }
Send(t) ==
    IF threads[t].sender THEN Some(get_state(threads[t].kind, threads[t].val)) ELSE channel

(***************************************************************************)
(* One pass through the loop body: the sender slot is emptied and, when it *)
(* held a sender, the state before the step is sent; then the solver runs. *)
(* ok is the solver's Result.                                              *)
(***************************************************************************)
LoopBody(t, ok) ==
    /\ UNCHANGED notSim
    /\ threads[t].pc = "body"
    /\ channel' = Send(t)
    /\ ok => threads[t].val < BodyPosition(MaxSimSteps)
    /\ threads' = [threads EXCEPT ![t].sender = SenderTaken(threads[t].sender),
                                  ![t].val = SolveStep(threads[t].val, ok),
                                  ![t].pc = "head"]
    /\ UNCHANGED <<rigid_body_ptr, rigid_helix_simulator, nb_threads, computing,
                   main_pc, grid_state, helix_state, state_update, sim_op>>

ThreadBody(t) ==
    /\ \E ok \in BOOLEAN : LoopBody(t, ok)
    /\ UNCHANGED solve_op

\* the same pass, the result of the solver being kept for inspection
SolverPass(t) ==
    \E ok \in BOOLEAN :
       /\ LoopBody(t, ok)
       /\ solve_op' = Some([thread |-> t, ok |-> ok, before |-> threads[t].val])

\* *computing.lock().unwrap() = false; the closure returns
ThreadExit(t) ==
    /\ UNCHANGED <<notSim, solve_op>>
    /\ threads[t].pc = "clear"
    /\ threads' = [threads EXCEPT ![t].pc = "exited", ![t].val = 0]
    /\ computing' = FALSE
    /\ UNCHANGED <<rigid_body_ptr, rigid_helix_simulator, nb_threads,
                   main_pc, channel, grid_state, helix_state, state_update,
                   sim_op>>

(***************************************************************************)
(* Data::stop_rigid_body / Data::stop_free_helix_simulation: set the stop  *)
(* flag of the thread the handle points to, then drop the handle.          *)
(***************************************************************************)
\* Variant that drops the handle without setting the flag.
StopNoFlag(thr, ptr) == thr

SetStop(thr, ptr) ==
    IF ptr # None THEN [thr EXCEPT ![ptr[1]].stop = TRUE] ELSE thr

stop_rigid_body(thr) == SetStop(thr, rigid_body_ptr)

stop_free_helix_simulation(thr) == SetStop(thr, rigid_helix_simulator)

(***************************************************************************)
(* Data::rigid_body_request.  has_system is make_grid_system(..).is_some() *)
(* which holds when some grid of the design carries a helix with an        *)
(* interval.                                                               *)
(***************************************************************************)
\* Variant in which a request never toggles an existing simulation off.
RequestStartsAlways(ptr) == TRUE

RequestStarts(ptr) == ptr = None

\* What the thread owning Data did last: the operation, the handle it found,
\* whether a system could be built, the threads it spawned, what it returned.
Op(op, prev, has_system, started, ret) ==
    [op |-> op, prev |-> prev, has_system |-> has_system, started |-> started,
     ret |-> ret]

RigidBodyRequest ==
    /\ UNCHANGED <<notSim, solve_op>>
    /\ main_pc = "idle"
    /\ IF ~RequestStarts(rigid_body_ptr)
          THEN /\ threads' = stop_rigid_body(threads)
               /\ rigid_body_ptr' = None
               /\ sim_op' = Op("grid_request", rigid_body_ptr, FALSE, 0, None)
               /\ UNCHANGED <<nb_threads, computing>>
          ELSE \E has_system \in BOOLEAN :
                  IF has_system
                     THEN /\ Run("grid", BodyPosition(grid_state))
                          /\ rigid_body_ptr' = Some(nb_threads + 1)
                          /\ sim_op' = Op("grid_request", rigid_body_ptr, TRUE, 1,
                                          Some(get_state("grid", BodyPosition(grid_state))))
                     ELSE /\ sim_op' = Op("grid_request", rigid_body_ptr, FALSE, 0, None)
                          /\ UNCHANGED <<threads, nb_threads, computing, rigid_body_ptr>>
    /\ UNCHANGED <<rigid_helix_simulator, main_pc, channel, grid_state, helix_state,
                   state_update>>

(***************************************************************************)
(* Data::helix_simulation_request: make_flexible_helices_system always     *)
(* returns Some.                                                           *)
(***************************************************************************)
HelixSimulationRequest ==
    /\ UNCHANGED <<notSim, solve_op>>
    /\ main_pc = "idle"
    /\ IF ~RequestStarts(rigid_helix_simulator)
          THEN /\ threads' = stop_free_helix_simulation(threads)
               /\ rigid_helix_simulator' = None
               /\ sim_op' = Op("helix_request", rigid_helix_simulator, FALSE, 0, None)
               /\ UNCHANGED <<nb_threads, computing>>
          ELSE /\ Run("helix", BodyPosition(helix_state))
               /\ rigid_helix_simulator' = Some(nb_threads + 1)
               /\ sim_op' = Op("helix_request", rigid_helix_simulator, TRUE, 1,
                               Some(get_state("helix", BodyPosition(helix_state))))
    /\ state_update' = None
    /\ UNCHANGED <<rigid_body_ptr, main_pc, channel, grid_state, helix_state>>

(***************************************************************************)
(* Data::undo_grid_simulation / Data::undo_helix_simulation                *)
(***************************************************************************)
UndoGridSimulation ==
    /\ UNCHANGED <<notSim, solve_op>>
    /\ main_pc = "idle"
    /\ \E initial_state \in Snapshots("grid") :
          /\ threads' = stop_rigid_body(threads)
          /\ rigid_body_ptr' = None
          /\ grid_state' = read_grid_system_state(initial_state)
          /\ sim_op' = Op("undo_grid", rigid_body_ptr, FALSE, 0, None)
                           @@ [initial_state |-> initial_state]
    /\ UNCHANGED <<rigid_helix_simulator, nb_threads, computing, main_pc, channel,
                   helix_state, state_update>>

UndoHelixSimulation ==
    /\ UNCHANGED <<notSim, solve_op>>
    /\ main_pc = "idle"
    /\ \E initial_state \in Snapshots("helix") :
          /\ threads' = stop_free_helix_simulation(threads)
          /\ rigid_helix_simulator' = None
          /\ helix_state' = read_rigid_helix_state(initial_state)
          /\ sim_op' = Op("undo_helix", rigid_helix_simulator, FALSE, 0, None)
                           @@ [initial_state |-> initial_state]
    /\ state_update' = None
    /\ UNCHANGED <<rigid_body_ptr, nb_threads, computing, main_pc, channel,
                   grid_state>>

(***************************************************************************)
(* Data::check_rigid_body: place a sender in the slot of the running grid  *)
(* thread and block on rcv.recv(); then read_grid_system_state.            *)
(***************************************************************************)
CheckRigidBody ==
    /\ UNCHANGED <<notSim, solve_op>>
    /\ main_pc = "idle"
    /\ rigid_body_ptr # None
    /\ threads' = [threads EXCEPT ![rigid_body_ptr[1]].sender = TRUE]
    /\ channel' = None
    /\ main_pc' = "recv_grid"
    /\ sim_op' = Op("check_grid", rigid_body_ptr, FALSE, 0, None)
    /\ UNCHANGED <<rigid_body_ptr, rigid_helix_simulator, nb_threads, computing,
                   grid_state, helix_state, state_update>>

RecvGrid ==
    /\ UNCHANGED <<notSim, solve_op>>
    /\ main_pc = "recv_grid"
    /\ channel # None
    /\ grid_state' = read_grid_system_state(channel[1])
    /\ channel' = None
    /\ main_pc' = "idle"
    /\ UNCHANGED <<rigid_body_ptr, rigid_helix_simulator, threads, nb_threads,
                   computing, helix_state, state_update, sim_op>>

(***************************************************************************)
(* Data::read_rigid_helix_update: RigidHelixSimulator::check_simulation    *)
(* followed by update_positions.                                           *)
(***************************************************************************)
CheckSimulation ==
    /\ UNCHANGED <<notSim, solve_op>>
    /\ main_pc = "idle"
    /\ rigid_helix_simulator # None
    /\ threads' = [threads EXCEPT ![rigid_helix_simulator[1]].sender = TRUE]
    /\ channel' = None
    /\ main_pc' = "recv_helix"
    /\ sim_op' = Op("check_helix", rigid_helix_simulator, FALSE, 0, None)
    /\ UNCHANGED <<rigid_body_ptr, rigid_helix_simulator, nb_threads, computing,
                   grid_state, helix_state, state_update>>

RecvHelix ==
    /\ UNCHANGED <<notSim, solve_op>>
    /\ main_pc = "recv_helix"
    /\ channel # None
    /\ state_update' = None          \* taken again by update_positions
    /\ helix_state' = read_rigid_helix_state(channel[1])
    /\ channel' = None
    /\ main_pc' = "idle"
    /\ UNCHANGED <<rigid_body_ptr, rigid_helix_simulator, threads, nb_threads,
                   computing, grid_state, sim_op>>

InitSim ==
    /\ rigid_body_ptr = None
    /\ rigid_helix_simulator = None
    /\ threads = [t \in Tid |-> Unborn]
    /\ nb_threads = 0
    /\ computing = FALSE
    /\ main_pc = "idle"
    /\ channel = None
    /\ grid_state = 0
    /\ helix_state = 0
    /\ state_update = None
    /\ sim_op = Op("none", None, FALSE, 0, None)
    /\ solve_op = None


(***************************************************************************)
(* gui/top_bar.rs: the file dialogs.                                       *)
(* A path is the sequence of the dot-separated components of its file      *)
(* name: <<"design">>, <<"design", "txt">>, <<"design", "json">>.          *)
(***************************************************************************)
MaxDialogs == 2     \* dialog threads spawned in one behaviour

Did == 1..MaxDialogs

\* the components of a file name that are not valid Unicode (an OsStr need
\* not be)
NotUnicode == {"0xFF"}

Paths ==
    {<<"design">>, <<"design", "txt">>, <<"design", "json">>, <<"design", "tar", "gz">>,
     <<"design", "0xFF">>}

KeepProceeds == {None, Some("proceed")}

NoDialog == [kind |-> "none", pc |-> "unborn", keep_proceed |-> None, file |-> None]

\* Path::extension
extension(path) == IF Len(path) > 1 THEN Some(path[Len(path)]) ELSE None

\* OsStr::to_str
to_str(os_str) == IF os_str \in NotUnicode THEN None ELSE Some(os_str)

\* PathBuf::set_extension: the extension, if any, is replaced
set_extension(path, ext) ==
    (IF Len(path) > 1 THEN SubSeq(path, 1, Len(path) - 1) ELSE path) \o ext

\* the path posted by the save dialog
\* (variant in which the extension is replaced by json)
SavePathReplaced(path) == set_extension(path, <<"json">>)

\* the path posted by the save dialog (top_bar.rs, save_op)
SavePath(path) ==
    IF extension(path) = None
       THEN set_extension(path, <<"json">>)
       ELSE IF extension(path) # Some("json")
               THEN set_extension(path, <<extension(path)[1], "json">>)
               ELSE path

\* extension.to_str().unwrap(), reached when extension.and_then(|e| e.to_str())
\* is not Some("json"): the thread of the dialog panics
SavePanics(path) ==
    /\ extension(path) # None
    /\ to_str(extension(path)[1]) # Some("json")
    /\ to_str(extension(path)[1]) = None

\* if !*self.dialoging.lock().unwrap()
DialogGuardOpen(flag) == TRUE

DialogGuard(flag) == ~flag

Open(d) == dialogs[d].pc = "open"

AnyOpen == \E d \in Did : Open(d)

\* TopBar::update(Message::FileAddRequested) and (Message::FileSaveRequested(kp)):
\* test the flag, set it, spawn the thread that awaits the dialog.
FileRequested(kind, keep_proceed) ==
    /\ UNCHANGED notDlg
    /\ IF DialogGuard(dialoging)
          THEN /\ nb_dialogs < MaxDialogs
               /\ dialoging' = TRUE
               /\ nb_dialogs' = nb_dialogs + 1
               /\ dialogs' = [dialogs EXCEPT ![nb_dialogs + 1] =
                                 [kind |-> kind, pc |-> "open",
                                  keep_proceed |-> keep_proceed, file |-> None]]
               /\ dlg_op' = [msg |-> kind, found_open |-> AnyOpen, spawned |-> 1]
          ELSE /\ dlg_op' = [msg |-> kind, found_open |-> AnyOpen, spawned |-> 0]
               /\ UNCHANGED <<dialoging, dialogs, nb_dialogs>>
    /\ UNCHANGED <<file_add, file_save>>

FileAddRequested == FileRequested("add", None)

FileSaveRequested == \E keep_proceed \in KeepProceeds : FileRequested("save", keep_proceed)

\* let file = dialog.await; if let Some(handle) = file { requests... = Some(..) }
\* A panic of the save thread ends it before anything is posted.
DialogAnswered(d) ==
    /\ UNCHANGED notDlg
    /\ Open(d)
    /\ \E file \in {None} \cup {Some(p) : p \in Paths} :
          IF file # None /\ dialogs[d].kind = "save" /\ SavePanics(file[1])
          THEN /\ dialogs' = [dialogs EXCEPT ![d].pc = "panicked", ![d].file = file]
               /\ UNCHANGED <<file_add, file_save>>
          ELSE /\ file_add' = IF file # None /\ dialogs[d].kind = "add"
                                 THEN Some(file[1]) ELSE file_add
               /\ file_save' = IF file # None /\ dialogs[d].kind = "save"
                                  THEN Some(<<SavePath(file[1]), dialogs[d].keep_proceed>>)
                                  ELSE file_save
               /\ dialogs' = [dialogs EXCEPT ![d].pc = "answered", ![d].file = file]
    /\ UNCHANGED <<dialoging, nb_dialogs, dlg_op>>

\* *dialoging.lock().unwrap() = false; the thread ends
DialogDone(d) ==
    /\ UNCHANGED notDlg
    /\ dialogs[d].pc = "answered"
    /\ dialoging' = FALSE
    /\ dialogs' = [dialogs EXCEPT ![d].pc = "done"]
    /\ UNCHANGED <<nb_dialogs, file_add, file_save, dlg_op>>

InitDlg ==
    /\ dialoging = FALSE
    /\ dialogs = [d \in Did |-> NoDialog]
    /\ nb_dialogs = 0
    /\ file_add = None
    /\ file_save = None
    /\ dlg_op = [msg |-> "none", found_open |-> FALSE, spawned |-> 0]

NextDlg ==
    \/ FileAddRequested
    \/ FileSaveRequested
    \/ \E d \in Did : DialogAnswered(d)
    \/ \E d \in Did : DialogDone(d)

(***************************************************************************)
(* design.rs: the Design facade.                                           *)
(*                                                                         *)
(* design/data.rs and design/view.rs are not part of the sources at hand.  *)
(* Data is modelled from its description: a map from strand identifiers to *)
(* strands (the nucleotides of the strand from its 5' end to its 3' end    *)
(* and the circular flag), a map from helix identifiers to helices, and    *)
(* the dirty flags update_status and view_need_reset.  A nucleotide is a   *)
(* number; nucleotides 2h-1 and 2h lie on helix h.                         *)
(***************************************************************************)
MaxStrands == 3     \* strand identifiers in use
MaxHelices == 3     \* helix identifiers in use
MaxMatrix == 1      \* model matrices: translations of the identity
MaxOps == 2         \* new operations applied in one behaviour

StrandIds == 1..MaxStrands
HelixIds == 1..MaxHelices
Matrices == 0..MaxMatrix

Strand(domains, cyclic) == [domains |-> domains, cyclic |-> cyclic]

helix_of(nucl) == (nucl + 1) \div 2

NuclsOf(strand) == {strand.domains[i] : i \in 1..Len(strand.domains)}

IndexOf(seq, x) == CHOOSE i \in 1..Len(seq) : seq[i] = x

Present(S) == {id \in DOMAIN S : S[id] # None}

\* Data::get_strand_id: the strand a nucleotide belongs to.
get_strand_id(S, nucl) ==
    IF \E id \in Present(S) : nucl \in NuclsOf(S[id][1])
    THEN Some(CHOOSE id \in Present(S) : nucl \in NuclsOf(S[id][1]))
    ELSE None

\* the identifier given to a strand created by a split
NewStrandId(S) ==
    IF Present(S) = {} THEN 1
    ELSE (CHOOSE m \in Present(S) : \A id \in Present(S) : id <= m) + 1

\* Data::split_strand(nucl, None): nucl becomes the 3' end of its strand;
\* a circular strand is opened there, a linear one is split in two and the
\* 3' part gets a new identifier.
split_strand(S, nucl) ==
    IF get_strand_id(S, nucl) = None THEN S
    ELSE LET id == get_strand_id(S, nucl)[1]
             strand == S[id][1]
             i == IndexOf(strand.domains, nucl)
             n == Len(strand.domains)
         IN  IF strand.cyclic
             THEN [S EXCEPT ![id] = Some(Strand(
                      SubSeq(strand.domains, i + 1, n) \o SubSeq(strand.domains, 1, i),
                      FALSE))]
             ELSE IF i = n THEN S
             ELSE [S EXCEPT ![id] = Some(Strand(SubSeq(strand.domains, 1, i), FALSE)),
                            ![NewStrandId(S)] =
                                Some(Strand(SubSeq(strand.domains, i + 1, n), FALSE))]

\* Data::undo_split(strand, s_id): the original strand is put back under
\* its identifier and the strands made of its nucleotides are removed.
undo_split(S, strand, s_id) ==
    [id \in DOMAIN S |->
        IF id = s_id THEN Some(strand)
        ELSE IF S[id] # None /\ NuclsOf(S[id][1]) \subseteq NuclsOf(strand) THEN None
        ELSE S[id]]

\* Data::merge_strands(prime5, prime3): the merged strand keeps prime5.
merge_strands(S, prime5, prime3) ==
    IF prime5 \in Present(S) /\ prime3 \in Present(S) /\ prime5 # prime3
    THEN [S EXCEPT ![prime5] = Some(Strand(S[prime5][1].domains \o S[prime3][1].domains,
                                           FALSE)),
                   ![prime3] = None]
    ELSE S

\* Data::undo_merge: both original strands are put back.
undo_merge(S, strand_5prime, strand_3prime, prime5_id, prime3_id) ==
    [S EXCEPT ![prime5_id] = Some(strand_5prime), ![prime3_id] = Some(strand_3prime)]

\* Data::make_cycle(strand_id, cyclic)
make_cycle(S, strand_id, cyclic) ==
    IF strand_id \in Present(S)
    THEN [S EXCEPT ![strand_id] = Some(Strand(S[strand_id][1].domains, cyclic))]
    ELSE S

\* Data::cross_cut(source_id, target_id, nucl, target_3prime): the target
\* strand is cut at nucl and one of its parts is joined to the source; the
\* part joined is the 3' part of the result when target_3prime holds.
cross_cut(S, source_id, target_id, nucl, target_3prime) ==
    LET source == S[source_id][1].domains
        target == S[target_id][1].domains
        i == IndexOf(target, nucl)
        n == Len(target)
        keep == IF target_3prime THEN SubSeq(target, 1, i - 1) ELSE SubSeq(target, i + 1, n)
        joined == IF target_3prime THEN source \o SubSeq(target, i, n)
                  ELSE SubSeq(target, 1, i) \o source
    IN  [S EXCEPT ![source_id] = Some(Strand(joined, FALSE)),
                  ![target_id] = IF keep = <<>> THEN None ELSE Some(Strand(keep, FALSE))]

\* Data::undo_cross_cut: both original strands are put back.
undo_cross_cut(S, source_strand, target_strand, source_id, target_id) ==
    [S EXCEPT ![source_id] = Some(source_strand), ![target_id] = Some(target_strand)]

\* Data::undoable_rm_strand(strand, strand_id, undo)
undoable_rm_strand(S, strand, strand_id, undo) ==
    IF undo THEN [S EXCEPT ![strand_id] = Some(strand)]
    ELSE [S EXCEPT ![strand_id] = None]

\* Data::get_strand_state: the snapshot carried by BigChange
get_strand_state(d) == d.strands

(***************************************************************************)
(* Helices.  A helix is given by the grid position it occupies, if any.    *)
(***************************************************************************)
Cells == {1, 2}

Helix(grid) == [grid |-> grid]

HelixAt(H, cell) == {h \in DOMAIN H : H[h] # None /\ H[h][1].grid = Some(cell)}

OnHelix(S, h) == {id \in Present(S) : \E n \in NuclsOf(S[id][1]) : helix_of(n) = h}

\* a strand operation of Data: the strands change, the view must be reset
Topology(d, S) == [d EXCEPT !.strands = S, !.view_need_reset = TRUE]

\* Data::add_helix(helix, h_id)
add_helix(d, helix, h_id) ==
    [d EXCEPT !.helices[h_id] = Some(helix), !.view_need_reset = TRUE]

\* Data::remove_helix(h_id)
remove_helix(d, h_id) ==
    [d EXCEPT !.helices[h_id] = None, !.view_need_reset = TRUE]

\* Data::build_helix_grid(grid_id, x, y, position, length), for an empty helix
build_helix_grid(d, cell) ==
    LET free == {h \in DOMAIN d.helices : d.helices[h] = None}
    IN  IF HelixAt(d.helices, cell) = {} /\ free # {}
        THEN add_helix(d, Helix(Some(cell)), CHOOSE h \in free : \A g \in free : h <= g)
        ELSE d

\* Data::rm_full_helix_grid(grid_id, x, y, position): the strands of the
\* helix at that grid position are removed.
rm_full_helix_grid(d, cell) ==
    Topology(d, [id \in DOMAIN d.strands |->
                    IF \E h \in HelixAt(d.helices, cell) : id \in OnHelix(d.strands, h)
                    THEN None ELSE d.strands[id]])

\* Data::rm_helix_grid(grid_id, x, y)
rm_helix_grid(d, cell) ==
    [d EXCEPT !.helices = [h \in DOMAIN d.helices |->
                              IF h \in HelixAt(d.helices, cell) THEN None
                              ELSE d.helices[h]],
              !.view_need_reset = TRUE]

\* Data::translate_helix, translate_grid, rotate_helix_arround,
\* rotate_grid_arround: the geometry changes, as in read_grid_system_state.
GeometryChanged(d) == [d EXCEPT !.update_status = TRUE]

(***************************************************************************)
(* View (design/view.rs): the model matrix and its dirty flag.  A matrix   *)
(* is a pair (translation, rotation) relative to the identity.             *)
(***************************************************************************)
Matrix(t, r) == [t |-> t, r |-> r]

Identity == Matrix(0, 0)

translated(m, t) == Matrix(m.t + t, m.r)

rotated(m, r) == Matrix(m.t, m.r + r)

\* View::set_matrix
set_matrix(v, m) == [v EXCEPT !.model_matrix = m, !.was_updated = TRUE]

(***************************************************************************)
(* Controller::translate, Controller::rotate, Controller::terminate_movement*)
(* (design/controller.rs).  st is the triple (data, view, controller).     *)
(* translate reports whether something moved; a helix may not move.        *)
(***************************************************************************)
State(d, v, c) == [data |-> d, view |-> v, controller |-> c]

\* variant: the translation is applied to the matrix the view has now
translate_from_view(st, translation) ==
    IF translation.target = "Design"
    THEN [st |-> [st EXCEPT !.view = set_matrix(st.view,
                        translated(st.view.model_matrix, translation.translation))],
          moved |-> TRUE]
    ELSE IF translation.target = "Grid" \/ translation.moved
    THEN [st |-> [st EXCEPT !.data = GeometryChanged(st.data)], moved |-> TRUE]
    ELSE [st |-> st, moved |-> FALSE]

translate(st, translation) ==
    IF translation.target = "Design"
    THEN [st |-> [st EXCEPT !.view = set_matrix(st.view,
                        translated(st.controller.old_matrix, translation.translation))],
          moved |-> TRUE]
    ELSE IF translation.target = "Grid" \/ translation.moved
    THEN [st |-> [st EXCEPT !.data = GeometryChanged(st.data)], moved |-> TRUE]
    ELSE [st |-> st, moved |-> FALSE]

rotate(st, rotation) ==
    IF rotation.target = "Design"
    THEN [st EXCEPT !.view = set_matrix(st.view,
                        rotated(st.controller.old_matrix, rotation.rotation))]
    ELSE [st EXCEPT !.data = GeometryChanged(st.data)]

terminate_movement(st) ==
    [st EXCEPT !.controller.old_matrix = st.view.model_matrix]

(***************************************************************************)
(* Design::apply_operation (design.rs).  The result is BigChange(init,     *)
(* after) with the strand states read before and after, UndoableChange or  *)
(* NoChange.  Each operator below is one arm of the match.                 *)
(***************************************************************************)
BigChange(init, after) == [kind |-> "BigChange", init |-> init, after |-> after]
UndoableChange == [kind |-> "UndoableChange"]
NoChange == [kind |-> "NoChange"]

Done(st, result) == [st |-> st, result |-> result]

WithStrands(st, S, result) == Done([st EXCEPT !.data = Topology(st.data, S)], result)

\* UndoableOp::Translation
ApplyTranslation(st, op) ==
    IF translate(st, op).moved THEN Done(translate(st, op).st, UndoableChange)
    ELSE Done(translate(st, op).st, NoChange)

\* UndoableOp::RmGridHelix(descriptor, position, length)
ApplyRmGridHelix(st, op) ==
    LET d1 == IF op.length > 0 THEN rm_full_helix_grid(st.data, op.cell) ELSE st.data
    IN  Done([st EXCEPT !.data = rm_helix_grid(d1, op.cell)], UndoableChange)

\* UndoableOp::RmStrand
ApplyRmStrand(st, op) ==
    LET init == get_strand_state(st.data)
        after == undoable_rm_strand(st.data.strands, op.strand, op.strand_id, op.undo)
    IN  WithStrands(st, after, BigChange(init, after))

\* UndoableOp::RawHelixCreation
ApplyRawHelixCreation(st, op) ==
    IF op.delete
    THEN Done([st EXCEPT !.data = remove_helix(st.data, op.h_id)], UndoableChange)
    ELSE Done([st EXCEPT !.data = add_helix(st.data, op.helix, op.h_id)], UndoableChange)

\* UndoableOp::Cut
\* (variant that splits whatever the undo flag says)
ApplyCutNoUndo(st, op) ==
    WithStrands(st, split_strand(st.data.strands, op.nucl),
                BigChange(get_strand_state(st.data),
                          split_strand(st.data.strands, op.nucl)))

ApplyCut(st, op) ==
    LET init == get_strand_state(st.data)
        after == IF op.undo THEN undo_split(st.data.strands, op.strand, op.s_id)
                 ELSE split_strand(st.data.strands, op.nucl)
    IN  WithStrands(st, after, BigChange(init, after))

\* UndoableOp::Xover
\* (variant without the test prime5_id == prime3_id)
ApplyXoverNoCycle(st, op) ==
    LET init == get_strand_state(st.data)
        after == IF op.undo
                 THEN undo_merge(st.data.strands, op.strand_5prime, op.strand_3prime,
                                 op.prime5_id, op.prime3_id)
                 ELSE merge_strands(st.data.strands, op.prime5_id, op.prime3_id)
    IN  WithStrands(st, after, BigChange(init, after))

ApplyXover(st, op) ==
    LET init == get_strand_state(st.data)
        after == IF op.prime5_id = op.prime3_id
                 THEN make_cycle(st.data.strands, op.prime5_id, ~op.undo)
                 ELSE IF op.undo
                 THEN undo_merge(st.data.strands, op.strand_5prime, op.strand_3prime,
                                 op.prime5_id, op.prime3_id)
                 ELSE merge_strands(st.data.strands, op.prime5_id, op.prime3_id)
    IN  WithStrands(st, after, BigChange(init, after))

\* UndoableOp::CrossCut
\* (variant that falls through to UndoableChange)
ApplyCrossCutUndoable(st, op) ==
    WithStrands(st,
                IF op.undo
                THEN undo_cross_cut(st.data.strands, op.source_strand, op.target_strand,
                                    op.source_id, op.target_id)
                ELSE cross_cut(st.data.strands, op.source_id, op.target_id, op.nucl,
                               op.target_3prime),
                UndoableChange)

ApplyCrossCut(st, op) ==
    LET init == get_strand_state(st.data)
        after == IF op.undo
                 THEN undo_cross_cut(st.data.strands, op.source_strand, op.target_strand,
                                     op.source_id, op.target_id)
                 ELSE cross_cut(st.data.strands, op.source_id, op.target_id, op.nucl,
                                op.target_3prime)
    IN  WithStrands(st, after, BigChange(init, after))

apply_operation(st, op) ==
    CASE op.kind = "Rotation" -> Done(rotate(st, op), UndoableChange)
      [] op.kind = "Translation" -> ApplyTranslation(st, op)
      [] op.kind = "AddGridHelix" ->
            Done([st EXCEPT !.data = build_helix_grid(st.data, op.cell)], UndoableChange)
      [] op.kind = "RmGridHelix" -> ApplyRmGridHelix(st, op)
      [] op.kind = "RmStrand" -> ApplyRmStrand(st, op)
      [] op.kind = "RawHelixCreation" -> ApplyRawHelixCreation(st, op)
      [] op.kind = "Cut" -> ApplyCut(st, op)
      [] op.kind = "Xover" -> ApplyXover(st, op)
      [] op.kind = "CrossCut" -> ApplyCrossCut(st, op)

(***************************************************************************)
(* The operations handed to apply_operation.  They are built from the      *)
(* current design, as FlatScene::read_consequence builds them: the strands *)
(* an operation carries are the strands of the design at that moment.      *)
(***************************************************************************)
Linear(S) == {id \in Present(S) : ~S[id][1].cyclic}

First(S, id) == S[id][1].domains[1]
Last(S, id) == S[id][1].domains[Len(S[id][1].domains)]

Isometries(st) ==
    (IF st.controller.old_matrix.t < MaxMatrix
     THEN {[kind |-> "Translation", target |-> "Design", translation |-> 1,
            moved |-> TRUE]}
     ELSE {})
    \cup {[kind |-> "Translation", target |-> tg, translation |-> 1, moved |-> mv] :
            tg \in {"Grid", "Helix"}, mv \in BOOLEAN}
    \cup (IF st.controller.old_matrix.r < MaxMatrix
          THEN {[kind |-> "Rotation", target |-> "Design", rotation |-> 1]}
          ELSE {})
    \cup {[kind |-> "Rotation", target |-> tg, rotation |-> 1] : tg \in {"Grid", "Helix"}}

HelixOperations(st) ==
    {[kind |-> "AddGridHelix", cell |-> c, length |-> 0] : c \in Cells}
    \cup {[kind |-> "RmGridHelix", cell |-> c, length |-> l] : c \in Cells, l \in {0, 1}}
    \cup {[kind |-> "RawHelixCreation", helix |-> st.data.helices[h][1], h_id |-> h,
           delete |-> TRUE] :
            h \in {g \in HelixIds : st.data.helices[g] # None
                                    /\ OnHelix(st.data.strands, g) = {}}}
    \cup {[kind |-> "RawHelixCreation", helix |-> Helix(None), h_id |-> h,
           delete |-> FALSE] :
            h \in {g \in HelixIds : st.data.helices[g] = None}}

StrandOperations(S) ==
    {[kind |-> "RmStrand", strand |-> S[id][1], strand_id |-> id, undo |-> FALSE] :
        id \in Present(S)}
    \cup {[kind |-> "Cut", nucl |-> n, strand |-> S[get_strand_id(S, n)[1]][1],
           s_id |-> get_strand_id(S, n)[1], undo |-> FALSE] :
            n \in {m \in UNION {NuclsOf(S[id][1]) : id \in Present(S)} :
                      NewStrandId(S) <= MaxStrands}}
    \cup {[kind |-> "Xover", strand_5prime |-> S[p5][1], strand_3prime |-> S[p3][1],
           prime5_id |-> p5, prime3_id |-> p3, undo |-> FALSE] :
            p5 \in Linear(S), p3 \in Linear(S)}
    \cup {[kind |-> "CrossCut", source_strand |-> S[x[1]][1], target_strand |-> S[x[2]][1],
           source_id |-> x[1], target_id |-> x[2], target_3prime |-> x[4],
           nucl |-> x[3], undo |-> FALSE] :
            x \in {y \in Linear(S) \X Linear(S) \X (1..(2 * MaxHelices)) \X BOOLEAN :
                     /\ y[1] # y[2]
                     /\ y[3] \in NuclsOf(S[y[2]][1])
                     /\ helix_of(IF y[4] THEN Last(S, y[1]) ELSE First(S, y[1]))
                            # helix_of(y[3])}}

Operations(st) == Isometries(st) \cup HelixOperations(st) \cup StrandOperations(st.data.strands)

\* the same operation with its undo (or delete) flag toggled; RmGridHelix
\* carries no flag
Flagged == {"RmStrand", "Cut", "Xover", "CrossCut"}

Reverse(op) ==
    IF op.kind \in Flagged THEN [op EXCEPT !.undo = ~op.undo]
    ELSE IF op.kind = "RawHelixCreation" THEN [op EXCEPT !.delete = ~op.delete]
    ELSE op

Content(d) == [strands |-> d.strands, helices |-> d.helices]

NoPoll == [polled |-> FALSE, content |-> None, again |-> FALSE, prev |-> None]

Polled(last, content) ==
    [polled |-> TRUE, content |-> content, again |-> last.polled,
     prev |-> IF last.polled THEN last.content ELSE None]

Changed == [view |-> NoPoll, data |-> NoPoll]

Applied(r, op, reverse, origin) ==
    /\ data' = r.st.data
    /\ view' = r.st.view
    /\ controller' = r.st.controller
    /\ des_op' = [op |-> op, result |-> r.result, reverse |-> reverse, origin |-> origin,
                  count |-> IF reverse THEN des_op.count ELSE des_op.count + 1]
    /\ notified' = Changed

\* Design::apply_operation, called with a new operation
ApplyOperation ==
    /\ UNCHANGED notDes
    /\ des_op.count < MaxOps
    /\ \E op \in Operations(State(data, view, controller)) :
          Applied(apply_operation(State(data, view, controller), op), op, FALSE,
                  Content(data))

\* Design::apply_operation, called again with the last operation reversed
ApplyReverse ==
    /\ UNCHANGED notDes
    /\ des_op.op.kind \in Flagged \cup {"RawHelixCreation", "RmGridHelix"}
    /\ ~des_op.reverse
    /\ Applied(apply_operation(State(data, view, controller), Reverse(des_op.op)),
               Reverse(des_op.op), TRUE, des_op.origin)

\* Design::on_notify(AppNotification::MovementEnded)
TerminateMovement ==
    /\ UNCHANGED notDes
    /\ controller' = terminate_movement(State(data, view, controller)).controller
    /\ notified' = Changed
    /\ UNCHANGED <<data, view, des_op>>

(***************************************************************************)
(* The polls.  View::was_updated, Data::view_need_reset and                *)
(* Data::was_updated read a dirty flag and clear it.                       *)
(***************************************************************************)
ModelChanged(m) == [kind |-> "ModelChanged", matrix |-> m]
ViewNeedReset == [kind |-> "ViewNeedReset"]
InstanceChanged == [kind |-> "InstanceChanged"]

\* Design::view_was_updated
view_was_updated(v) ==
    IF v.was_updated
    THEN [view |-> [v EXCEPT !.was_updated = FALSE],
          notification |-> Some(ModelChanged(v.model_matrix))]
    ELSE [view |-> v, notification |-> None]

\* Variant that asks the data whether it was updated before asking whether
\* the view needs a reset.
data_was_updated_swapped(d) ==
    IF d.update_status
    THEN [data |-> [d EXCEPT !.update_status = FALSE],
          notification |-> Some(InstanceChanged)]
    ELSE IF d.view_need_reset
    THEN [data |-> [d EXCEPT !.view_need_reset = FALSE],
          notification |-> Some(ViewNeedReset)]
    ELSE [data |-> d, notification |-> None]

\* Design::data_was_updated
data_was_updated(d) ==
    IF d.view_need_reset
    THEN [data |-> [d EXCEPT !.view_need_reset = FALSE],
          notification |-> Some(ViewNeedReset)]
    ELSE IF d.update_status
    THEN [data |-> [d EXCEPT !.update_status = FALSE],
          notification |-> Some(InstanceChanged)]
    ELSE [data |-> d, notification |-> None]

ViewWasUpdated ==
    /\ UNCHANGED notDes
    /\ view' = view_was_updated(view).view
    /\ notified' = [notified EXCEPT
                      !.view = Polled(notified.view, view_was_updated(view).notification)]
    /\ UNCHANGED <<data, controller, des_op>>

DataWasUpdated ==
    /\ UNCHANGED notDes
    /\ data' = data_was_updated(data).data
    /\ notified' = [notified EXCEPT
                      !.data = Polled(notified.data, data_was_updated(data).notification)]
    /\ UNCHANGED <<view, controller, des_op>>

\* A design read from a file: two strands on two helices, one helix on a grid.
InitStrands ==
    [id \in StrandIds |->
        IF id <= 2 THEN Some(Strand(<<2 * id - 1, 2 * id>>, FALSE)) ELSE None]

InitHelices ==
    [h \in HelixIds |->
        IF h = 1 THEN Some(Helix(Some(1))) ELSE IF h = 2 THEN Some(Helix(None)) ELSE None]

InitDes ==
    /\ data = [strands |-> InitStrands, helices |-> InitHelices,
               update_status |-> FALSE, view_need_reset |-> FALSE]
    /\ view = [model_matrix |-> Identity, was_updated |-> FALSE]
    /\ controller = [old_matrix |-> Identity]
    /\ des_op = [op |-> [kind |-> "none"], result |-> NoChange, reverse |-> FALSE,
                 origin |-> Content(data), count |-> 0]
    /\ notified = Changed

NextDes ==
    \/ ApplyOperation
    \/ ApplyReverse
    \/ TerminateMovement
    \/ ViewWasUpdated
    \/ DataWasUpdated

(***************************************************************************)
(* scene/controller/automata.rs: the controller of the 3D scene.           *)
(*                                                                         *)
(* A state is a record: its name and the fields of the struct.  A          *)
(* Transition is the new state, if any, the consequence, and the struct as *)
(* the handler left it (handlers write self.mouse_position in place).      *)
(* Time is counted in ticks; Instants are only ever subtracted, so the     *)
(* epoch is moved to click_date whenever click_date is set.  Pixel         *)
(* coordinates divided by the area size are payload and are left out of    *)
(* the consequences.                                                       *)
(***************************************************************************)
TicksPerMilli == 2          \* resolution of Instant; as_millis() truncates
DoubleClickDelay == 250     \* (now - click_date).as_millis() > 250
MoveThreshold == 5          \* position_difference(..) > 5.
Window == 2                 \* milliseconds looked at on each side of the delay

\* the moments, in ticks after click_date, at which something happens
Moments ==
    {0} \cup ((DoubleClickDelay - Window) * TicksPerMilli ..
              (DoubleClickDelay + Window) * TicksPerMilli)

\* Duration::as_millis
as_millis(ticks) == ticks \div TicksPerMilli

Positions == {<<0, 0>>, <<5, 0>>, <<0, 6>>}

\* (a.x - b.x).abs().max((a.y - b.y).abs())
position_difference(a, b) ==
    LET dx == IF a[1] < b[1] THEN b[1] - a[1] ELSE a[1] - b[1]
        dy == IF a[2] < b[2] THEN b[2] - a[2] ELSE a[2] - b[2]
    IN  IF dx < dy THEN dy ELSE dx

\* what ElementSelector::set_selected_id can return
Picked == {None, Some("nucl"), Some("grid"), Some("handle"), Some("circle"), Some("widget")}

CursorMoved == [type |-> "CursorMoved"]
MouseInput(st, button) == [type |-> "MouseInput", state |-> st, button |-> button]
OtherEvent == [type |-> "Other"]

Pressed(event, button) ==
    event.type = "MouseInput" /\ event.state = "Pressed" /\ event.button = button

Released(event, button) ==
    event.type = "MouseInput" /\ event.state = "Released" /\ event.button = button

Nothing == [kind |-> "Nothing"]
Consequence(kind) == [kind |-> kind]
OnElement(kind, element) == [kind |-> kind, element |-> element]
ElementSelected(element, adding) ==
    [kind |-> "ElementSelected", element |-> element, adding |-> adding]

Transition(new_state, consequences) ==
    [new_state |-> Some(new_state), consequences |-> consequences, self |-> new_state]

Stay(self, consequences) ==
    [new_state |-> None, consequences |-> consequences, self |-> self]

NormalState(mouse_position) == [name |-> "NormalState", mouse_position |-> mouse_position]

TranslatingCamera(mouse_position, clicked_position, button_pressed) ==
    [name |-> "TranslatingCamera", mouse_position |-> mouse_position,
     clicked_position |-> clicked_position, button_pressed |-> button_pressed]

SettingPivot(mouse_position, clicked_position) ==
    [name |-> "SettingPivot", mouse_position |-> mouse_position,
     clicked_position |-> clicked_position]

RotatingCamera(clicked_position, button_pressed) ==
    [name |-> "RotatingCamera", clicked_position |-> clicked_position,
     button_pressed |-> button_pressed]

Selecting(mouse_position, clicked_position, element, click_date, adding) ==
    [name |-> "Selecting", mouse_position |-> mouse_position,
     clicked_position |-> clicked_position, element |-> element,
     click_date |-> click_date, adding |-> adding]

WaitDoubleClick(click_date, element, mouse_position, clicked_position) ==
    [name |-> "WaitDoubleClick", click_date |-> click_date, element |-> element,
     mouse_position |-> mouse_position, clicked_position |-> clicked_position]

TranslatingWidget == [name |-> "TranslatingWidget"]
RotatingWidget == [name |-> "RotatingWidget"]
BuildingStrand == [name |-> "BuildingStrand"]
Xovering(source_element) == [name |-> "Xovering", source_element |-> source_element]
BuildingHelix(clicked_position) ==
    [name |-> "BuildingHelix", clicked_position |-> clicked_position]
Pasting(clicked_position, element) ==
    [name |-> "Pasting", clicked_position |-> clicked_position, element |-> element]

\* initial_state()
initial_state == NormalState(<<-1, -1>>)

(***************************************************************************)
(* The handlers.  c is what the handler reads from the Controller and the  *)
(* ElementSelector while it runs: the modifiers (alt, shift, ctrl = the    *)
(* ctrl function), pasting, the action mode, the element under the cursor, *)
(* and                                                                     *)
(* the answers of the scene data (grid_intersection, element_to_nucl,      *)
(* get_strand_builder, attempt_xover, the builder's moving end, the        *)
(* projection on the axis).  t is Instant::now().                          *)
(***************************************************************************)
is_build(mode) == mode \in {"Build", "BuildHelix"}

GridCircle == Some("grid_circle")

\* the two tests of the timed states
Expired(t, click_date) == as_millis(t - click_date) > DoubleClickDelay

\* (variant that counts a distance equal to the threshold as a drag)
MovedEarly(a, b) == position_difference(a, b) >= MoveThreshold

Moved(a, b) == position_difference(a, b) > MoveThreshold

\* (variant that forgets the modifiers)
NewSelectingPlain(position, element, c, t) ==
    Transition(Selecting(position, position, element, t, FALSE), Nothing)

NewSelecting(position, element, c, t) ==
    Transition(Selecting(position, position, element, t, c.shift \/ c.ctrl), Nothing)

NormalStateInput(self, event, position, c, t) ==
    LET moved == [self EXCEPT !.mouse_position = position]
    IN  IF event.type = "CursorMoved" /\ c.pasting
        THEN Stay(moved, OnElement("PasteCandidate", c.element))
        ELSE IF event.type = "CursorMoved"
        THEN IF is_build(c.mode) /\ c.element = Some("grid") /\ c.intersection
             THEN Stay(moved, OnElement("Candidate", GridCircle))
             ELSE Stay(moved, OnElement("Candidate", c.element))
        ELSE IF Pressed(event, "Left") /\ c.alt
        THEN Transition(TranslatingCamera(self.mouse_position, self.mouse_position, "Left"),
                        Nothing)
        ELSE IF Pressed(event, "Left") /\ c.pasting
        THEN Transition(Pasting(position, c.element), Nothing)
        ELSE IF Pressed(event, "Left")
        THEN IF c.element = Some("grid")
             THEN IF c.mode = "BuildHelix"
                  THEN IF c.intersection
                       THEN Transition(BuildingHelix(position), Nothing)
                       ELSE NewSelecting(position, c.element, c, t)
                  ELSE NewSelecting(position,
                                    IF c.intersection THEN GridCircle ELSE c.element, c, t)
             ELSE IF c.element = Some("handle")
             THEN Transition(TranslatingWidget, Consequence("InitTranslation"))
             ELSE IF c.element = Some("circle")
             THEN Transition(RotatingWidget, Consequence("InitRotation"))
             ELSE IF c.element = Some("widget")
             THEN Stay(self, Nothing)
             ELSE NewSelecting(position, c.element, c, t)
        ELSE IF Pressed(event, "Middle") /\ c.ctrl
        THEN Transition(RotatingCamera(position, "Middle"), Nothing)
        ELSE IF Pressed(event, "Middle")
        THEN Transition(TranslatingCamera(self.mouse_position, self.mouse_position,
                                          "Middle"), Nothing)
        ELSE IF Pressed(event, "Right")
        THEN Transition(SettingPivot(position, position), Nothing)
        ELSE Stay(self, Nothing)

TranslatingCameraInput(self, event, position, c, t) ==
    IF event.type = "MouseInput" /\ Released(event, self.button_pressed)
    THEN Transition(NormalState(self.mouse_position), Consequence("MovementEnded"))
    ELSE IF event.type = "CursorMoved"
    THEN Stay([self EXCEPT !.mouse_position = position], Consequence("CameraTranslated"))
    ELSE Stay(self, Nothing)

\* SettingPivot::input
\* (variant whose drag goes back to NormalState)
SettingPivotInputNoSwing(self, event, position, c, t) ==
    IF event.type = "CursorMoved"
    THEN IF Moved(position, self.clicked_position)
         THEN Transition(NormalState(position), Nothing)
         ELSE Stay([self EXCEPT !.mouse_position = position], Nothing)
    ELSE IF Released(event, "Right")
    THEN Transition(NormalState(position), OnElement("PivotElement", c.element))
    ELSE Stay(self, Nothing)

SettingPivotInput(self, event, position, c, t) ==
    IF event.type = "CursorMoved"
    THEN IF Moved(position, self.clicked_position)
         THEN Transition(RotatingCamera(self.clicked_position, "Right"), Nothing)
         ELSE Stay([self EXCEPT !.mouse_position = position], Nothing)
    ELSE IF Released(event, "Right")
    THEN Transition(NormalState(position), OnElement("PivotElement", c.element))
    ELSE Stay(self, Nothing)

RotatingCameraInput(self, event, position, c, t) ==
    IF event.type = "CursorMoved" THEN Stay(self, Consequence("Swing"))
    ELSE IF event.type = "MouseInput" /\ Released(event, self.button_pressed)
    THEN Transition(NormalState(position), Nothing)
    ELSE Stay(self, Nothing)

\* Selecting::check_timers
SelectingCheckTimers(self, c, t) ==
    IF Expired(t, self.click_date)
    THEN IF c.nucl
         THEN Transition(Xovering(self.element), Consequence("InitFreeXover"))
         ELSE Transition(NormalState(self.mouse_position), Nothing)
    ELSE Stay(self, Nothing)

\* Selecting::input
\* (variant whose release reads no modifier)
SelectingInputPlain(self, event, position, c, t) ==
    IF event.type = "CursorMoved"
    THEN IF Moved(position, self.clicked_position)
         THEN IF c.builder
              THEN Transition(BuildingStrand, Nothing)
              ELSE Transition(NormalState(self.mouse_position), Nothing)
         ELSE Stay([self EXCEPT !.mouse_position = position], Nothing)
    ELSE IF Released(event, "Left")
    THEN Transition(WaitDoubleClick(t, self.element, position, self.clicked_position),
                    ElementSelected(self.element, FALSE))
    ELSE Stay(self, Nothing)

\* (variant that escalates as soon as the threshold is reached)
SelectingInputEarly(self, event, position, c, t) ==
    IF event.type = "CursorMoved"
    THEN IF position_difference(position, self.clicked_position) >= MoveThreshold
         THEN IF c.builder
              THEN Transition(BuildingStrand, Nothing)
              ELSE Transition(NormalState(self.mouse_position), Nothing)
         ELSE Stay([self EXCEPT !.mouse_position = position], Nothing)
    ELSE IF Released(event, "Left")
    THEN Transition(WaitDoubleClick(t, self.element, position, self.clicked_position),
                    ElementSelected(self.element, self.adding))
    ELSE Stay(self, Nothing)

SelectingInput(self, event, position, c, t) ==
    IF event.type = "CursorMoved"
    THEN IF Moved(position, self.clicked_position)
         THEN IF c.builder
              THEN Transition(BuildingStrand, Nothing)
              ELSE Transition(NormalState(self.mouse_position), Nothing)
         ELSE Stay([self EXCEPT !.mouse_position = position], Nothing)
    ELSE IF Released(event, "Left")
    THEN Transition(WaitDoubleClick(t, self.element, position, self.clicked_position),
                    ElementSelected(self.element, self.adding))
    ELSE Stay(self, Nothing)

\* WaitDoubleClick::check_timers
\* (variant that reverts as soon as the delay is reached)
WaitDoubleClickCheckTimersEarly(self, c, t) ==
    IF as_millis(t - self.click_date) >= DoubleClickDelay
    THEN Transition(NormalState(self.mouse_position), Nothing)
    ELSE Stay(self, Nothing)

\* (variant that never reverts)
WaitDoubleClickCheckTimersNever(self, c, t) == Stay(self, Nothing)

WaitDoubleClickCheckTimers(self, c, t) ==
    IF Expired(t, self.click_date)
    THEN Transition(NormalState(self.mouse_position), Nothing)
    ELSE Stay(self, Nothing)

\* WaitDoubleClick::input
WaitDoubleClickInput(self, event, position, c, t) ==
    IF Released(event, "Left")
    THEN Transition(NormalState(self.mouse_position), OnElement("DoubleClick", self.element))
    ELSE IF event.type = "CursorMoved"
    THEN IF Moved(position, self.clicked_position)
         THEN Transition(NormalState(position), Nothing)
         ELSE Stay([self EXCEPT !.mouse_position = position], Nothing)
    ELSE Stay(self, Nothing)

WidgetInput(self, event, position, c, t, kind) ==
    IF Released(event, "Left")
    THEN Transition(NormalState(position), Consequence("MovementEnded"))
    ELSE IF event.type = "CursorMoved" THEN Stay(self, Consequence(kind))
    ELSE Stay(self, Nothing)

BuildingStrandInput(self, event, position, c, t) ==
    IF Released(event, "Left")
    THEN Transition(NormalState(position),
                    IF c.moving_end THEN Consequence("BuildEnded") ELSE Nothing)
    ELSE IF event.type = "CursorMoved"
    THEN Stay(self, IF c.projection THEN Consequence("Building") ELSE Nothing)
    ELSE Stay(self, Nothing)

XoveringInput(self, event, position, c, t) ==
    IF Released(event, "Left")
    THEN Transition(NormalState(position),
                    IF c.xover THEN Consequence("XoverAtempt")
                    ELSE Consequence("EndFreeXover"))
    ELSE IF event.type = "CursorMoved"
    THEN Stay(self, OnElement("MoveFreeXover", c.element))
    ELSE Stay(self, Nothing)

BuildingHelixInput(self, event, position, c, t) ==
    IF event.type = "CursorMoved"
    THEN IF Moved(self.clicked_position, position)
         THEN Transition(NormalState(position), Nothing)
         ELSE Stay(self, Nothing)
    ELSE IF Released(event, "Left")
    THEN Transition(NormalState(position), Consequence("BuildHelix"))
    ELSE Stay(self, Nothing)

PastingInput(self, event, position, c, t) ==
    IF event.type = "CursorMoved"
    THEN IF Moved(self.clicked_position, position)
         THEN Transition(NormalState(position), Nothing)
         ELSE Stay(self, Nothing)
    ELSE IF Released(event, "Left")
    THEN Transition(NormalState(position), OnElement("Paste", self.element))
    ELSE Stay(self, Nothing)

\* (variant in which RotatingCamera keeps the default hook)
transition_to_translating(self) ==
    IF self.name = "TranslatingCamera" THEN "InitMovement" ELSE "Nothing"

\* ControllerState::transition_to: the TransistionConsequence of entering
transition_to(self) ==
    IF self.name \in {"TranslatingCamera", "RotatingCamera"} THEN "InitMovement"
    ELSE "Nothing"

\* ControllerState::transition_from: the TransistionConsequence of leaving
\* (variant: the default of the trait for every state)
transition_from_default(self) == "Nothing"

transition_from(self) ==
    IF self.name \in {"TranslatingCamera", "RotatingCamera"} THEN "EndMovement"
    ELSE "Nothing"

\* ControllerState::input of the current state
input(self, event, position, c, t) ==
    CASE self.name = "NormalState" -> NormalStateInput(self, event, position, c, t)
      [] self.name = "TranslatingCamera" -> TranslatingCameraInput(self, event, position, c, t)
      [] self.name = "SettingPivot" -> SettingPivotInput(self, event, position, c, t)
      [] self.name = "RotatingCamera" -> RotatingCameraInput(self, event, position, c, t)
      [] self.name = "Selecting" -> SelectingInput(self, event, position, c, t)
      [] self.name = "WaitDoubleClick" -> WaitDoubleClickInput(self, event, position, c, t)
      [] self.name = "TranslatingWidget" ->
            WidgetInput(self, event, position, c, t, "Translation")
      [] self.name = "RotatingWidget" -> WidgetInput(self, event, position, c, t, "Rotation")
      [] self.name = "BuildingStrand" -> BuildingStrandInput(self, event, position, c, t)
      [] self.name = "Xovering" -> XoveringInput(self, event, position, c, t)
      [] self.name = "BuildingHelix" -> BuildingHelixInput(self, event, position, c, t)
      [] self.name = "Pasting" -> PastingInput(self, event, position, c, t)

\* ControllerState::check_timers of the current state; the default does nothing
check_timers(self, c, t) ==
    CASE self.name = "Selecting" -> SelectingCheckTimers(self, c, t)
      [] self.name = "WaitDoubleClick" -> WaitDoubleClickCheckTimers(self, c, t)
      [] OTHER -> Stay(self, Nothing)

(***************************************************************************)
(* The events and what the handlers may read while handling them.          *)
(***************************************************************************)
Events ==
    {CursorMoved, OtherEvent}
    \cup {MouseInput(st, b) : st \in {"Pressed", "Released"}, b \in {"Left", "Middle", "Right"}}

Modes == {"Normal", "Build", "BuildHelix"}

Quiet ==
    [alt |-> FALSE, ctrl |-> FALSE, shift |-> FALSE, pasting |-> FALSE, mode |-> "Normal",
     element |-> None, intersection |-> FALSE, nucl |-> FALSE, builder |-> FALSE,
     xover |-> FALSE, moving_end |-> FALSE, projection |-> FALSE]

\* the contexts that make a difference to the handler of the state
Contexts(self, event) ==
    IF self.name = "NormalState" /\ event.type = "CursorMoved"
    THEN {[Quiet EXCEPT !.pasting = x[1], !.element = x[2]] :
            x \in BOOLEAN \X Picked}
         \cup {[Quiet EXCEPT !.element = Some("grid"), !.mode = x[1], !.intersection = x[2]] :
            x \in Modes \X BOOLEAN}
    ELSE IF self.name = "NormalState" /\ Pressed(event, "Left")
    THEN {[Quiet EXCEPT !.alt = x[1], !.pasting = x[2], !.shift = x[3], !.ctrl = x[4],
                        !.element = x[5]] :
            x \in BOOLEAN \X BOOLEAN \X BOOLEAN \X BOOLEAN \X Picked}
         \cup {[Quiet EXCEPT !.alt = x[1], !.pasting = x[2], !.shift = x[3], !.ctrl = x[4],
                             !.element = Some("grid"), !.mode = x[5],
                             !.intersection = x[6]] :
            x \in BOOLEAN \X BOOLEAN \X BOOLEAN \X BOOLEAN \X Modes \X BOOLEAN}
    ELSE IF self.name = "NormalState" /\ Pressed(event, "Middle")
    THEN {[Quiet EXCEPT !.ctrl = x] : x \in BOOLEAN}
    ELSE IF self.name = "Selecting" /\ event.type = "CursorMoved"
    THEN {[Quiet EXCEPT !.builder = x] : x \in BOOLEAN}
    ELSE IF self.name = "SettingPivot" /\ Released(event, "Right")
    THEN {[Quiet EXCEPT !.element = x] : x \in Picked}
    ELSE IF self.name = "Xovering" /\ Released(event, "Left")
    THEN {[Quiet EXCEPT !.xover = x] : x \in BOOLEAN}
    ELSE IF self.name = "Xovering" /\ event.type = "CursorMoved"
    THEN {[Quiet EXCEPT !.element = x] : x \in Picked}
    ELSE IF self.name = "BuildingStrand" /\ Released(event, "Left")
    THEN {[Quiet EXCEPT !.moving_end = x] : x \in BOOLEAN}
    ELSE IF self.name = "BuildingStrand" /\ event.type = "CursorMoved"
    THEN {[Quiet EXCEPT !.projection = x] : x \in BOOLEAN}
    ELSE {Quiet}

TimerContexts(self) ==
    IF self.name = "Selecting" THEN {[Quiet EXCEPT !.nucl = x] : x \in BOOLEAN}
    ELSE {Quiet}

Timed(self) == self.name \in {"Selecting", "WaitDoubleClick"}

\* now - self.click_date
Elapsed(self, t) == IF Timed(self) THEN t - self.click_date ELSE 0

\* the epoch is moved to the click_date of the new state
Rebased(self) == IF Timed(self) THEN [self EXCEPT !.click_date = 0] ELSE self

\* Controller::input / Controller::check_timers: the state is replaced when
\* the Transition carries a new one.  aut_op keeps the last call that did
\* something, that read the clock, that handled a left press in
\* NormalState or that compared the cursor with the clicked position: any
\* other call that returns Transition::nothing() and leaves the struct as
\* it was changes nothing.
Handled(call, event, position, c, tr) ==
    IF /\ tr.new_state = None /\ tr.self = ctrl_state /\ tr.consequences = Nothing
       /\ ~(call = "check_timers" /\ Timed(ctrl_state))
       /\ ~(ctrl_state.name = "NormalState" /\ Pressed(event, "Left"))
       /\ ~(event.type = "CursorMoved" /\ "clicked_position" \in DOMAIN ctrl_state
                                       /\ ctrl_state.name # "TranslatingCamera")
    THEN UNCHANGED autVars
    ELSE /\ ctrl_state' = IF tr.new_state # None THEN Rebased(tr.new_state[1]) ELSE tr.self
         /\ now' = IF tr.new_state # None THEN 0 ELSE now
         /\ aut_op' = [call |-> call, event |-> event, position |-> position,
                       nucl |-> c.nucl, builder |-> c.builder, c |-> c,
                       from |-> ctrl_state.name,
                       elapsed |-> Elapsed(ctrl_state, now),
                       changed |-> tr.new_state # None, consequences |-> tr.consequences,
                       hooks |-> IF tr.new_state # None
                                 THEN <<transition_from(ctrl_state),
                                        transition_to(tr.new_state[1])>>
                                 ELSE <<>>]

Input ==
    /\ UNCHANGED notAut
    /\ \E event \in Events, position \in Positions :
          \E c \in Contexts(ctrl_state, event) :
             Handled("input", event, position, c, input(ctrl_state, event, position, c, now))

CheckTimers ==
    /\ UNCHANGED notAut
    /\ \E c \in TimerContexts(ctrl_state) :
          Handled("check_timers", OtherEvent, <<0, 0>>, c, check_timers(ctrl_state, c, now))

\* time passes while a state holds a click_date
Tick ==
    /\ UNCHANGED notAut
    /\ Timed(ctrl_state)
    /\ \E m \in Moments : m > now - ctrl_state.click_date /\ now' = ctrl_state.click_date + m
    /\ UNCHANGED <<ctrl_state, aut_op>>

InitAut ==
    /\ ctrl_state = initial_state
    /\ now = 0
    /\ aut_op = [call |-> "none", event |-> OtherEvent, position |-> <<0, 0>>,
                 nucl |-> FALSE, builder |-> FALSE, c |-> Quiet, from |-> "none",
                 elapsed |-> 0,
                 changed |-> FALSE, consequences |-> Nothing, hooks |-> <<>>]

NextAut == Input \/ CheckTimers \/ Tick

(***************************************************************************)
(* The 2D flatscene (flatscene.rs).  It reads the strands of the design    *)
(* it shows; a nucleotide of the flatscene is the nucleotide of the design *)
(* and its helix is helix_of.  mediator is the last call the flatscene     *)
(* made on the mediator, flat_op the last consequence or notification it   *)
(* was given.  The selections are a nucleotide, a bound whose ends are     *)
(* close on the screen and a bound whose ends are far apart; zoom levels,  *)
(* the free end being drawn and the redraw flags are left out.             *)
(***************************************************************************)
AppIds == {"FlatScene", "Scene"}

Selections == {"nucleotide", "near_bound", "far_bound"}

Nucls == 1..(2 * MaxHelices)

\* update_opperation(Arc::new(Cut { nucl, strand_id, strand, undo: false }))
\* made when get_strand_id finds the strand of the nucleotide
CutOf(S, nucl) ==
    LET strand_id == get_strand_id(S, nucl)
    IN  IF strand_id # None
        THEN Some([call |-> "update_opperation", kind |-> "Cut", nucl |-> nucl,
                   strand_id |-> strand_id[1], undo |-> FALSE])
        ELSE None

\* the arm Consequence::CutCross(from, to) of read_consequence
\* (variant without the test on the helices)
CutCrossOfAnyHelix(S, from, to) ==
    LET source == get_strand_id(S, from)
        target == get_strand_id(S, to)
    IN  IF source # None /\ target # None
        THEN Some([call |-> "update_opperation", kind |-> "CrossCut",
                   source_id |-> source[1], target_id |-> target[1], nucl |-> to,
                   target_3prime |-> (Last(S, target[1]) = to), undo |-> FALSE])
        ELSE None

CutCrossOf(S, from, to) ==
    IF helix_of(from) # helix_of(to)
    THEN LET source == get_strand_id(S, from)
             target == get_strand_id(S, to)
         IN  IF source # None /\ target # None
             THEN Some([call |-> "update_opperation", kind |-> "CrossCut",
                        source_id |-> source[1], target_id |-> target[1], nucl |-> to,
                        target_3prime |-> (Last(S, target[1]) = to), undo |-> FALSE])
             ELSE None
    ELSE None

\* FlatScene::read_consequence: the flatscene after the consequence and the
\* call made on the mediator, if any
read_consequence(fs, S, csq) ==
    CASE csq.kind = "Cut" -> [flat |-> fs, post |-> CutOf(S, csq.nucl)]
      [] csq.kind = "CutFreeEnd" -> [flat |-> fs, post |-> CutOf(S, csq.nucl)]
      [] csq.kind = "CutCross" -> [flat |-> fs, post |-> CutCrossOf(S, csq.from, csq.to)]
      [] csq.kind = "ClearSelection" ->
            [flat |-> [fs EXCEPT !.selection = <<>>],
             post |-> Some([call |-> "notify_multiple_selection", selection |-> <<>>,
                            app_id |-> "FlatScene"])]
      [] OTHER -> [flat |-> fs, post |-> None]

\* the test on app_id in the arms of on_notify
\* (variant that takes every notification for a foreign one)
EchoNever(app_id) == FALSE

Echo(app_id) == app_id = "FlatScene"

\* FlatScene::on_notify
on_notify(fs, n) ==
    CASE n.kind = "Selection3D" ->
            IF Echo(n.app_id) THEN fs
            ELSE [fs EXCEPT !.selection = n.selection]
      [] n.kind = "NewCandidate" ->
            IF Echo(n.app_id) THEN fs ELSE [fs EXCEPT !.candidates = n.selection]
      [] n.kind = "CenterSelection" ->
            IF Echo(n.app_id) THEN fs
            ELSE LET shown == [fs EXCEPT !.selection = n.selection]
                 IN  IF n.selection = <<"far_bound">>
                     THEN [shown EXCEPT !.top = "first", !.bottom = "second",
                                        !.splited = TRUE]
                     ELSE IF n.selection = <<"near_bound">>
                     THEN [shown EXCEPT !.top = "first"]
                     ELSE [shown EXCEPT !.top = "nucleotide"]
      [] n.kind = "Split2d" -> [fs EXCEPT !.splited = ~fs.splited]
      [] OTHER -> fs

Consequences ==
    {[kind |-> k, nucl |-> n] : k \in {"Cut", "CutFreeEnd"}, n \in Nucls}
    \cup {[kind |-> "CutCross", from |-> a, to |-> b] : a \in Nucls, b \in Nucls}
    \cup {[kind |-> "ClearSelection"], [kind |-> "Nothing"]}

Notifications ==
    {[kind |-> k, selection |-> sel, app_id |-> a] :
        k \in {"Selection3D", "NewCandidate"},
        sel \in {<<>>, <<"nucleotide">>}, a \in AppIds}
    \cup {[kind |-> "CenterSelection", selection |-> <<x>>, app_id |-> a] :
        x \in Selections, a \in AppIds}
    \cup {[kind |-> "Split2d"]}

\* FlatScene::input: the consequence of the controller is read
ReadConsequence ==
    /\ UNCHANGED notFlat
    /\ \E csq \in Consequences :
          LET r == read_consequence(flat, data.strands, csq)
          IN  /\ flat' = r.flat
              /\ mediator' = IF r.post # None THEN r.post ELSE mediator
              /\ flat_op' = csq

OnNotify ==
    /\ UNCHANGED notFlat
    /\ \E n \in Notifications : flat' = on_notify(flat, n) /\ flat_op' = n
    /\ UNCHANGED mediator

\* FlatScene::new followed by add_design
InitFlat ==
    /\ flat = [selection |-> <<>>, candidates |-> <<>>, splited |-> FALSE,
               top |-> "origin", bottom |-> "origin"]
    /\ mediator = None
    /\ flat_op = [kind |-> "none"]

NextFlat == ReadConsequence \/ OnNotify

(***************************************************************************)
(* The 3D scene (scene.rs, scene/data.rs).  The elements of the scene are  *)
(* the nucleotides of the design it shows; the design is shared with the   *)
(* rest of the program, which applies operations to it while the scene     *)
(* keeps its selection.  A pick reads the colour under the cursor: the id  *)
(* of an element drawn there, or the colour of the background.             *)
(***************************************************************************)
Background == 16777215      \* 0xFFFFFF

\* Design3D::get_element_position: the position of an element of the design
get_element_position(S, element_id) ==
    IF get_strand_id(S, element_id) # None
    THEN Some([helix |-> helix_of(element_id), nucl |-> element_id])
    ELSE None

\* Data::get_selected_position; Data::get_element_position unwraps the
\* position of the element
get_selected_position(sc, S) ==
    IF sc.selected = <<>>
    THEN [panic |-> FALSE, value |-> None]
    ELSE LET position == get_element_position(S, sc.selected[1])
         IN  IF position = None
             THEN [panic |-> TRUE, value |-> None]
             ELSE [panic |-> FALSE, value |-> position]

\* Scene::click_on (variant that takes every colour for an element)
click_on_any(sc, selected_id) == [sc EXCEPT !.selected = <<selected_id>>]

\* Scene::click_on
click_on(sc, selected_id) ==
    IF selected_id # Background
    THEN [sc EXCEPT !.selected = <<selected_id>>]
    ELSE [sc EXCEPT !.selected = <<>>]

\* Scene::check_on
check_on(sc, checked_id) ==
    IF checked_id # Background
    THEN [sc EXCEPT !.candidates = <<checked_id>>]
    ELSE [sc EXCEPT !.candidates = <<>>]

\* set_selected_id: what can be under the cursor
Colours == {n \in Nucls : get_strand_id(data.strands, n) # None} \cup {Background}

\* Scene::input, Consequence::PixelSelected
ClickOn ==
    /\ UNCHANGED notScn
    /\ ~scene.panicked
    /\ \E id \in Colours :
          /\ scene' = click_on(scene, id)
          /\ scn_op' = [call |-> "click_on", id |-> id]

\* Scene::draw with a pixel to check
CheckOn ==
    /\ UNCHANGED notScn
    /\ ~scene.panicked
    /\ \E id \in Colours :
          /\ scene' = check_on(scene, id)
          /\ scn_op' = [call |-> "check_on", id |-> id]

\* Scene::input, Consequence::Swing
Swing ==
    /\ UNCHANGED notScn
    /\ ~scene.panicked
    /\ LET pivot == get_selected_position(scene, data.strands)
       IN  scene' = IF pivot.panic THEN [scene EXCEPT !.panicked = TRUE]
                    ELSE IF pivot.value # None THEN [scene EXCEPT !.pivot = pivot.value]
                    ELSE scene
    /\ scn_op' = [call |-> "swing"]

\* Design::apply_operation, called for the removal of a strand asked in
\* another view: the design shown by the scene changes, the scene does not
RmStrandApplied ==
    /\ UNCHANGED notDes
    /\ des_op.count < MaxOps
    /\ \E op \in {o \in StrandOperations(data.strands) : o.kind = "RmStrand"} :
          Applied(apply_operation(State(data, view, controller), op), op, FALSE,
                  Content(data))

\* Data::new of the scene followed by add_design
InitScn ==
    /\ scene = [selected |-> <<>>, candidates |-> <<>>, pivot |-> None, panicked |-> FALSE]
    /\ scn_op = [call |-> "none"]

NextScn == ClickOn \/ CheckOn \/ Swing \/ RmStrandApplied

(***************************************************************************)
(* The undo and redo buttons of the top bar (gui/top_bar.rs).  The top bar *)
(* is a program of the GUI runtime: at each update the runtime builds the  *)
(* widgets with view, turns the events of the window into the messages of  *)
(* the widgets they hit, appends the messages queued by the main loop and  *)
(* gives them to update one after the other.                               *)
(***************************************************************************)
MaxEvents == 2      \* button presses handled in one update of the runtime
MaxQueued == 1      \* messages queued by the main loop between two updates

ApplicationStates == [can_undo : BOOLEAN, can_redo : BOOLEAN]

Buttons == {"button_undo", "button_redo"}

\* TopBar::view (variant: on_press is set whatever the flags are)
TopBarViewEnabled(b) ==
    [button_undo |-> Some([type |-> "Undo"]), button_redo |-> Some([type |-> "Redo"])]

\* TopBar::view: the message each button sends when pressed, if any
TopBarView(b) ==
    [button_undo |-> IF b.application_state.can_undo THEN Some([type |-> "Undo"]) ELSE None,
     button_redo |-> IF b.application_state.can_redo THEN Some([type |-> "Redo"]) ELSE None]

\* TopBar::update
TopBarUpdate(b, message) ==
    CASE message.type = "NewApplicationState" ->
            [b EXCEPT !.application_state = message.state]
      [] message.type = "Undo" -> [b EXCEPT !.requests.undo = Some("unit")]
      [] message.type = "Redo" -> [b EXCEPT !.requests.redo = Some("unit")]
      [] OTHER -> b

\* the messages sent by the widgets hit by the events, in the order of the events
RECURSIVE WidgetMessages(_, _)
WidgetMessages(widgets, events) ==
    IF events = <<>> THEN <<>>
    ELSE widgets[Head(events)] \o WidgetMessages(widgets, Tail(events))

\* the order in which one update of the runtime hands the messages to
\* TopBar::update: those of the widgets, then the queued ones
BatchOf(of_widgets, queued) == of_widgets \o queued

\* the calls of TopBar::update for a batch: each message with the
\* application_state it finds, and the top bar after the last one
RECURSIVE RunBatch(_, _, _)
RunBatch(b, messages, calls) ==
    IF messages = <<>> THEN [bar |-> b, calls |-> calls]
    ELSE RunBatch(TopBarUpdate(b, Head(messages)), Tail(messages),
                  Append(calls, [message |-> Head(messages),
                                 found |-> b.application_state]))

EventSeqs == UNION {[1..n -> Buttons] : n \in 0..MaxEvents}

\* the main loop queues Message::NewApplicationState for the top bar
QueueMessage ==
    /\ UNCHANGED notBar
    /\ Len(queued_messages) < MaxQueued
    /\ \E state \in ApplicationStates :
          queued_messages' = Append(queued_messages,
                                    [type |-> "NewApplicationState", state |-> state])
    /\ UNCHANGED <<bar, bar_op>>

\* one update of the runtime: view, the events, then update for each message
StateUpdate ==
    /\ UNCHANGED notBar
    /\ \E events \in EventSeqs :
          LET r == RunBatch(bar, BatchOf(WidgetMessages(TopBarView(bar), events),
                                         queued_messages), <<>>)
          IN  /\ bar' = r.bar
              /\ bar_op' = r.calls
    /\ queued_messages' = <<>>

\* the main loop takes the undo and redo requests
PollRequests ==
    /\ UNCHANGED notBar
    /\ bar.requests # [undo |-> None, redo |-> None]
    /\ bar' = [bar EXCEPT !.requests = [undo |-> None, redo |-> None]]
    /\ UNCHANGED <<queued_messages, bar_op>>

\* TopBar::new
InitBar ==
    /\ bar = [application_state |-> [can_undo |-> FALSE, can_redo |-> FALSE],
              requests |-> [undo |-> None, redo |-> None]]
    /\ queued_messages = <<>>
    /\ bar_op = <<>>

NextBar == QueueMessage \/ StateUpdate \/ PollRequests

(***************************************************************************)
(* design/data/rigid_body.rs: Data::read_intervals.  A nucleotide is a     *)
(* Nucl {helix, position, forward}; identifier_nucl holds the nucleotides  *)
(* of the helix domains of the design.                                     *)
(***************************************************************************)
MaxPosition == 2    \* positions 0..MaxPosition of a helix
MaxDomains == 3     \* domains of the design

\* the helices that carry domains: one helix, whose id is not the number of a
\* segment found on it
SimHelices == {1}

Nucl(helix, position, forward) ==
    [helix |-> helix, position |-> position, forward |-> forward]

compl(nucl) == [nucl EXCEPT !.forward = ~nucl.forward]

left(nucl) == [nucl EXCEPT !.position = nucl.position - 1]

right(nucl) == [nucl EXCEPT !.position = nucl.position + 1]

\* a helix domain spans [start, end) of a helix in a direction
Domains ==
    {d \in [helix : SimHelices, start : 0..MaxPosition, end : 1..(MaxPosition + 1),
            forward : BOOLEAN] : d.start < d.end}

NuclsOfDomain(d) == {Nucl(d.helix, p, d.forward) : p \in d.start..(d.end - 1)}

prime5_end(d) ==
    IF d.forward THEN Nucl(d.helix, d.start, TRUE) ELSE Nucl(d.helix, d.end - 1, FALSE)

identifier_nucl(domains) == UNION {NuclsOfDomain(domains[i]) : i \in 1..Len(domains)}

\* self.space_position[&self.identifier_nucl[&nucl]]
space_position(nucl) ==
    (nucl.helix * (MaxPosition + 2) + nucl.position) * 2 + (IF nucl.forward THEN 1 ELSE 0)

\* Option::xor
xor(a, b) == IF a = None THEN b ELSE IF b = None THEN a ELSE None

\* FreeNucl::with_helix
with_helix(nucl, helix) ==
    [helix |-> helix, position |-> nucl.position, forward |-> nucl.forward,
     old_helix |-> xor(helix, Some(nucl.helix))]

\* the locals of read_intervals before the first strand
NoIntervals ==
    [nucl_map |-> <<>>, current_helix |-> None, helix_map |-> <<>>,
     free_nucls |-> <<>>, free_nucl_ids |-> <<>>, free_nucl_position |-> <<>>,
     intervals |-> <<>>, starting_helix |-> None]

\* helix_map.push(nucl.helix); intervals.push((position, position));
\* current_helix is incremented, or set to 0
NewSegment(r, nucl, moving_nucl) ==
    [r EXCEPT !.helix_map = Append(r.helix_map, nucl.helix),
              !.intervals = Append(r.intervals,
                                   <<moving_nucl.position, moving_nucl.position>>),
              !.current_helix = IF r.current_helix = None THEN Some(0)
                                ELSE Some(r.current_helix[1] + 1)]

Min(a, b) == IF a < b THEN a ELSE b

Max(a, b) == IF a < b THEN b ELSE a

\* variant: the complement is left out of nucl_map
InsertRigidAlone(r, moving_nucl, helix) ==
    [r EXCEPT !.nucl_map = (moving_nucl :> with_helix(moving_nucl, Some(helix))) @@ r.nucl_map,
              !.intervals[helix + 1] =
                  <<Min(r.intervals[helix + 1][1], moving_nucl.position),
                    Max(r.intervals[helix + 1][2], moving_nucl.position)>>]

\* the nucleotide and its complement are inserted with Some(helix), the
\* interval of the segment is grown
InsertRigid(r, moving_nucl, helix) ==
    [r EXCEPT !.nucl_map = (moving_nucl :> with_helix(moving_nucl, Some(helix)))
                           @@ (compl(moving_nucl) :> with_helix(compl(moving_nucl), Some(helix)))
                           @@ r.nucl_map,
              !.intervals[helix + 1] =
                  <<Min(r.intervals[helix + 1][1], moving_nucl.position),
                    Max(r.intervals[helix + 1][2], moving_nucl.position)>>]

\* the nucleotide is inserted with None and pushed on the free nucleotides
InsertFree(r, moving_nucl) ==
    [r EXCEPT !.nucl_map = (moving_nucl :> with_helix(moving_nucl, None)) @@ r.nucl_map,
              !.free_nucl_ids = (with_helix(moving_nucl, None) :> Len(r.free_nucls))
                                @@ r.free_nucl_ids,
              !.free_nucls = Append(r.free_nucls, with_helix(moving_nucl, None)),
              !.free_nucl_position = Append(r.free_nucl_position,
                                            space_position(moving_nucl))]

\* the first while loop: moving_nucl = moving_nucl.left()
RECURSIVE LeftWalk(_, _, _, _, _)
LeftWalk(domains, r, nucl, moving_nucl, prev_doubled) ==
    IF moving_nucl \notin identifier_nucl(domains) THEN r
    ELSE LET doubled == compl(moving_nucl) \in identifier_nucl(domains)
             seg == IF prev_doubled THEN r ELSE NewSegment(r, nucl, moving_nucl)
             next == IF doubled /\ nucl.forward
                        THEN InsertRigid(seg, moving_nucl, seg.current_helix[1])
                        ELSE IF ~doubled THEN InsertFree(r, moving_nucl) ELSE r
         IN  LeftWalk(domains, next, nucl, left(moving_nucl), doubled)

\* the helix of a doubled nucleotide met by the second loop after one that
\* is not doubled: starting_helix.take() gives n + 1 or 0, else a new segment
RightSegment(r, nucl, moving_nucl) ==
    IF r.starting_helix # None
       THEN [r EXCEPT !.starting_helix = None]
       ELSE NewSegment(r, nucl, moving_nucl)

RightHelix(r, seg) ==
    IF r.starting_helix # None
       THEN (IF r.starting_helix[1] # None THEN r.starting_helix[1][1] + 1 ELSE 0)
       ELSE seg.current_helix[1]

\* the second while loop: moving_nucl = moving_nucl.right()
RECURSIVE RightWalk(_, _, _, _, _)
RightWalk(domains, r, nucl, moving_nucl, prev_doubled) ==
    IF moving_nucl \notin identifier_nucl(domains) THEN r
    ELSE LET doubled == compl(moving_nucl) \in identifier_nucl(domains)
             seg == IF prev_doubled THEN r ELSE RightSegment(r, nucl, moving_nucl)
             helix == IF prev_doubled THEN r.current_helix[1] ELSE RightHelix(r, seg)
             next == IF doubled /\ nucl.forward
                        THEN InsertRigid(seg, moving_nucl, helix)
                        ELSE IF ~doubled THEN InsertFree(r, moving_nucl) ELSE r
         IN  RightWalk(domains, next, nucl, right(moving_nucl), doubled)

\* the body of `for d in s.domains.iter()`
ReadDomain(domains, r, d) ==
    LET nucl == prime5_end(d)
        starting_doubled == compl(nucl) \in identifier_nucl(domains)
        start == [r EXCEPT !.starting_helix =
                      IF starting_doubled THEN Some(r.current_helix) ELSE None]
    IN  IF nucl \notin DOMAIN r.nucl_map \/ ~nucl.forward
           THEN RightWalk(domains,
                          LeftWalk(domains, start, nucl, nucl, FALSE),
                          nucl, right(nucl), starting_doubled)
           ELSE r

RECURSIVE ReadDomains(_, _, _)
ReadDomains(domains, r, i) ==
    IF i > Len(domains) THEN r
    ELSE ReadDomains(domains, ReadDomain(domains, r, domains[i]), i + 1)

read_intervals(domains) == ReadDomains(domains, NoIntervals, 1)

\* a domain is added to the design; domains do not overlap
AddDomain ==
    /\ UNCHANGED notIvl
    /\ Len(strand_domains) < MaxDomains
    /\ \E d \in Domains :
          /\ NuclsOfDomain(d) \cap identifier_nucl(strand_domains) = {}
          /\ strand_domains' = Append(strand_domains, d)
    /\ interval_results' = None

\* start_free_helix_simulation: let interval_results = self.read_intervals()
ReadIntervals ==
    /\ UNCHANGED notIvl
    /\ interval_results' = Some(read_intervals(strand_domains))
    /\ UNCHANGED strand_domains

InitIvl ==
    /\ strand_domains = <<>>
    /\ interval_results = None

NextIvl ==
    \/ AddDomain
    \/ ReadIntervals


(***************************************************************************)
(* flatscene/data.rs, flatscene/view.rs: the helices of the 2D view.       *)
(* Design2d keeps one Helix2d {id, right} for each helix of the design it  *)
(* has seen with a strand; Data keeps one Helix for each Helix2d and View  *)
(* a copy of them and one HelixView for each.                              *)
(***************************************************************************)
MaxFlatHelices == 2   \* helices of the design
MaxRight == 2         \* extent of the strands of a helix

FlatHelixIds == 1..MaxFlatHelices

\* Design2d::update: a helix seen before keeps its place and takes the extent
\* the design gives it, a helix seen for the first time is pushed
RECURSIVE Design2dUpdate(_, _, _)
Design2dUpdate(helices2d, design, h) ==
    IF h > MaxFlatHelices THEN helices2d
    ELSE LET known == {i \in 1..Len(helices2d) : helices2d[i].id = h}
             next == IF known # {}
                        THEN [i \in 1..Len(helices2d) |->
                                 IF i \in known /\ design[h] > 0
                                    THEN [helices2d[i] EXCEPT !.right = design[h]]
                                    ELSE helices2d[i]]
                        ELSE IF design[h] > 0
                                THEN Append(helices2d, [id |-> h, right |-> design[h]])
                                ELSE helices2d
         IN  Design2dUpdate(next, design, h + 1)

\* Helix::new(h.left, h.right, (5. * idx - 1.) * Vec2::unit_y(), idx)
NewFlatHelix(h, idx) == [id |-> idx, position |-> 5 * idx - 1, right |-> h.right]

\* Helix::update
UpdateFlatHelix(helix, h) == [helix EXCEPT !.right = h.right]

\* variant: the new helices are put before the ones the list holds
fetch_helices_first(helices, new_helices) ==
    [i \in 1..(Len(new_helices) - Len(helices)) |->
        NewFlatHelix(new_helices[Len(helices) + i], Len(helices) + i - 1)]
    \o [i \in 1..Len(helices) |-> UpdateFlatHelix(helices[i], new_helices[i])]

\* Data::fetch_helices
fetch_helices(helices, new_helices) ==
    [i \in 1..Len(helices) |-> UpdateFlatHelix(helices[i], new_helices[i])]
    \o [i \in 1..(Len(new_helices) - Len(helices)) |->
           NewFlatHelix(new_helices[Len(helices) + i], Len(helices) + i - 1)]

\* View::reset
ResetView(v) == [v EXCEPT !.helices = <<>>, !.helices_view = <<>>]

\* View::update_helices: the views held are updated in place, add_helix
\* pushes a view numbered helices_view.len() for each helix beyond them
update_helices(v, helices) ==
    [helices |-> helices,
     helices_view |->
        [i \in 1..Len(v.helices_view) |->
            [v.helices_view[i] EXCEPT !.right = helices[i].right]]
        \o [i \in 1..(Len(helices) - Len(v.helices_view)) |->
              [id_helix |-> Len(v.helices_view) + i - 1,
               right |-> helices[Len(v.helices_view) + i].right]]]

\* the strands of a helix of the design change
DesignChanged ==
    /\ UNCHANGED notHel
    /\ \E h \in FlatHelixIds, r \in 0..MaxRight :
          /\ r # flat_design[h]
          /\ flat_design' = [flat_design EXCEPT ![h] = r]
    /\ UNCHANGED <<flat_data, flat_view>>

\* Data::notify_update
NotifyUpdate ==
    /\ UNCHANGED notHel
    /\ flat_data' = [flat_data EXCEPT !.instance_update = TRUE]
    /\ UNCHANGED <<flat_design, flat_view>>

\* Data::merge_strand
MergeStrand ==
    /\ UNCHANGED notHel
    /\ flat_data' = [flat_data EXCEPT !.instance_reset = TRUE, !.instance_update = TRUE]
    /\ UNCHANGED <<flat_design, flat_view>>

\* Data::split_strand
SplitStrand ==
    /\ UNCHANGED notHel
    /\ flat_data' = [flat_data EXCEPT !.instance_reset = TRUE]
    /\ UNCHANGED <<flat_design, flat_view>>

\* Data::perform_update
PerformUpdate ==
    /\ UNCHANGED notHel
    /\ LET v == IF flat_data.instance_reset THEN ResetView(flat_view) ELSE flat_view
           design == Design2dUpdate(flat_data.design, flat_design, 1)
           helices == fetch_helices(flat_data.helices, design)
       IN  IF flat_data.instance_update
              THEN /\ flat_data' = [design |-> design, helices |-> helices,
                                    instance_update |-> FALSE, instance_reset |-> FALSE]
                   /\ flat_view' = update_helices(v, helices)
              ELSE /\ flat_data' = [flat_data EXCEPT !.instance_update = FALSE,
                                                     !.instance_reset = FALSE]
                   /\ flat_view' = v
    /\ UNCHANGED flat_design

InitHel ==
    /\ flat_design = [h \in FlatHelixIds |-> 0]
    /\ flat_data = [design |-> <<>>, helices |-> <<>>, instance_update |-> TRUE,
                    instance_reset |-> FALSE]
    /\ flat_view = [helices |-> <<>>, helices_view |-> <<>>]

NextHel ==
    \/ DesignChanged
    \/ NotifyUpdate
    \/ MergeStrand
    \/ SplitStrand
    \/ PerformUpdate


(***************************************************************************)
(* design/data/rigid_body.rs: the clock and the Brownian heap of a         *)
(* HelixSystem.  Times are integers.  The heap is a BinaryHeap of          *)
(* (Reverse(time), nucl_id): its greatest element is the entry with the    *)
(* least time and, among those, the greatest nucl_id.  It is kept as the   *)
(* sequence of its entries, the greatest first.                            *)
(***************************************************************************)
MaxFreeNucls == 2   \* free_nucls.len()
MaxSample == 1      \* values drawn from the exponential law
MaxTimeStep == 2    \* max_time_step
MaxTime == 3        \* simulated time followed

FreeIds(n) == 0..(n - 1)

\* entry e is greater than entry f in the order of the heap
HeapBefore(e, f) == e.t < f.t \/ (e.t = f.t /\ e.nucl_id > f.nucl_id)

\* BinaryHeap::push
HeapPush(heap, e) ==
    LET k == Cardinality({i \in 1..Len(heap) : ~HeapBefore(e, heap[i])})
    IN  SubSeq(heap, 1, k) \o <<e>> \o SubSeq(heap, k + 1, Len(heap))

\* for i in 0..free_nucls.len() { if !free_anchors.iter().any(|(x, _)| *x == i)
\*     { heap.push((Reverse(sample + date), i)) } }
RECURSIVE FillHeap(_, _, _, _, _, _)
FillHeap(heap, i, n, free_anchors, samples, date) ==
    IF i >= n THEN heap
    ELSE FillHeap(IF i \notin free_anchors
                     THEN HeapPush(heap, [t |-> samples[i] + date, nucl_id |-> i])
                     ELSE heap,
                  i + 1, n, free_anchors, samples, date)

\* the HelixSystem built by make_flexible_helices_system
NewHelixSystem(n, free_anchors, brownian_motion, max_time_step, samples) ==
    [free_nucls |-> n, free_anchors |-> free_anchors,
     brownian_heap |-> FillHeap(<<>>, 0, n, free_anchors, samples, 0),
     current_time |-> 0, next_time |-> 0, time_span |-> max_time_step,
     brownian_motion |-> brownian_motion, max_time_step |-> max_time_step]

\* HelixSystem::next_time
next_time(hs) ==
    LET current == hs.next_time
        next == IF hs.brownian_heap # <<>> /\ hs.brownian_motion
                   THEN Min(hs.brownian_heap[1].t, current + hs.max_time_step)
                   ELSE current + hs.max_time_step
    IN  [hs EXCEPT !.current_time = current, !.next_time = next,
                   !.time_span = next - current]

\* variant: the entry popped is not replaced
brownian_jump_pop(hs, sample) ==
    IF hs.brownian_heap # <<>> /\ hs.next_time < hs.brownian_heap[1].t THEN hs
    ELSE IF hs.brownian_heap # <<>>
    THEN [hs EXCEPT !.brownian_heap = Tail(hs.brownian_heap)]
    ELSE hs

\* HelixSystem::brownian_jump
brownian_jump(hs, sample) ==
    IF hs.brownian_heap # <<>> /\ hs.next_time < hs.brownian_heap[1].t THEN hs
    ELSE IF hs.brownian_heap # <<>>
    THEN [hs EXCEPT !.brownian_heap =
             HeapPush(Tail(hs.brownian_heap),
                      [t |-> sample + hs.next_time,
                       nucl_id |-> hs.brownian_heap[1].nucl_id])]
    ELSE hs

\* variant: the heap is left as it was
update_parameters_keep(hs, parameters, samples) ==
    [hs EXCEPT !.brownian_motion = parameters.brownian_motion]

\* HelixSystem::update_parameters
update_parameters(hs, parameters, samples) ==
    [hs EXCEPT !.brownian_motion = parameters.brownian_motion,
               !.brownian_heap = FillHeap(<<>>, 0, hs.free_nucls, hs.free_anchors,
                                          samples, hs.next_time)]

Samples == 0..MaxSample

\* start_free_helix_simulation: the system given to HelixSystemThread::new
MakeFlexibleHelicesSystem ==
    /\ UNCHANGED notBrn
    /\ helix_system = None
    /\ \E n \in 0..MaxFreeNucls, brownian_motion \in BOOLEAN, step \in 1..MaxTimeStep :
          \E free_anchors \in SUBSET FreeIds(n), samples \in [FreeIds(n) -> Samples] :
             helix_system' = Some(NewHelixSystem(n, free_anchors, brownian_motion,
                                                 step, samples))
    /\ brn_op' = "new"

\* HelixSystemThread::run, one pass through the body of the loop: the
\* parameters waiting are taken, then next_time, then brownian_jump if the
\* Brownian motion is on
HelixLoop ==
    /\ UNCHANGED notBrn
    /\ helix_system # None
    /\ \E sample \in Samples :
          \E updated \in
                {helix_system[1]}
                \cup {update_parameters(helix_system[1], [brownian_motion |-> b], samples) :
                         b \in BOOLEAN,
                         samples \in [FreeIds(helix_system[1].free_nucls) -> Samples]} :
             \E taken \in {updated # helix_system[1], FALSE} :
                LET timed == next_time(updated)
                IN  /\ taken \/ updated = helix_system[1]
                    /\ timed.next_time <= MaxTime
                    /\ helix_system' = Some(IF timed.brownian_motion
                                               THEN brownian_jump(timed, sample)
                                               ELSE timed)
                    /\ brn_op' = IF taken THEN "update_parameters" ELSE "loop"

InitBrn ==
    /\ helix_system = None
    /\ brn_op = "none"

NextBrn ==
    \/ MakeFlexibleHelicesSystem
    \/ HelixLoop

(***************************************************************************)
(* design/data/rigid_body.rs: the date of the polls.                       *)
(* Data::check_rigid_body, Data::check_rigid_helices and                   *)
(* RigidHelixSimulator::check_simulation have the same shape:              *)
(*     let now = Instant::now();                                           *)
(*     if (now - ptrs.instant).as_millis() > 30 {                          *)
(*         *ptrs.state.lock().unwrap() = Some(snd);                        *)
(*         let state = rcv.recv().unwrap();                                *)
(*         ptrs.instant = now;                                             *)
(*         ..                                                              *)
(*     }                                                                   *)
(* Time is counted in ticks of the clock that Instant::now() reads; the    *)
(* caller is blocked in recv() while the simulation thread answers, and    *)
(* the clock goes on.                                                      *)
(***************************************************************************)
PollDelay == 30     \* (now - ptrs.instant).as_millis() > 30

\* the last tick of the clock looked at: two polling delays and more
LastTick == 2 * (PollDelay + Window) * TicksPerMilli

\* RigidBodyPtr { instant: date, .. }
Ptrs(date) == [instant |-> date]

\* (variant that asks as soon as the delay is reached)
PollDueEarly(date, instant) == as_millis(date - instant) >= PollDelay

\* (now - ptrs.instant).as_millis() > 30
PollDue(date, instant) == as_millis(date - instant) > PollDelay

\* what the thread owning Data did last with the handle;
\* asked counts the requests made to the running simulation
PollOp(op, date, since, asked) ==
    [op |-> op, date |-> date, since |-> since, asked |-> asked]

\* time passes
Elapse ==
    /\ UNCHANGED notClk
    /\ clock < LastTick
    /\ clock' = clock + 1
    /\ UNCHANGED <<ptrs, poll_pc, poll_op>>

\* Data::start_rigid_body (start_helix_simulation, RigidHelixSimulator::start_simulation):
\* the handle dated Instant::now()
StartSimulation ==
    /\ UNCHANGED notClk
    /\ poll_pc = "idle"
    /\ ptrs = None
    /\ ptrs' = Some(Ptrs(clock))
    /\ poll_op' = PollOp("start", clock, clock, 0)
    /\ UNCHANGED <<clock, poll_pc>>

\* Data::stop_rigid_body (stop_free_helix_simulation): the handle is dropped
StopSimulation ==
    /\ UNCHANGED notClk
    /\ poll_pc = "idle"
    /\ ptrs # None
    /\ ptrs' = None
    /\ poll_op' = PollOp("stop", clock, clock, 0)
    /\ UNCHANGED <<clock, poll_pc>>

\* Data::check_rigid_body up to rcv.recv(): the date is read, the sender is
\* placed in the slot of the thread when the delay has passed
CheckPoll ==
    /\ UNCHANGED notClk
    /\ poll_pc = "idle"
    /\ ptrs # None
    /\ IF PollDue(clock, ptrs[1].instant)
          THEN /\ poll_pc' = "recv"
               /\ poll_op' = PollOp("request", clock, ptrs[1].instant, poll_op.asked + 1)
          ELSE /\ poll_op' = PollOp("skip", clock, ptrs[1].instant, poll_op.asked)
               /\ UNCHANGED poll_pc
    /\ UNCHANGED <<clock, ptrs>>

\* Data::check_rigid_body after rcv.recv(): ptrs.instant = now, the date read
\* before the request
PollAnswered ==
    /\ UNCHANGED notClk
    /\ poll_pc = "recv"
    /\ ptrs' = Some([ptrs[1] EXCEPT !.instant = poll_op.date])
    /\ poll_pc' = "idle"
    /\ UNCHANGED <<clock, poll_op>>

InitClk ==
    /\ clock = 0
    /\ ptrs = None
    /\ poll_pc = "idle"
    /\ poll_op = PollOp("none", 0, 0, 0)

NextClk ==
    \/ Elapse
    \/ StartSimulation
    \/ StopSimulation
    \/ CheckPoll
    \/ PollAnswered

(***************************************************************************)
(* design/data/roller.rs: the time scale of PhysicalSystem.                *)
(* A cross-over is its real_dist, the distance between its two             *)
(* nucleotides, counted in units of dist_ac(parameters); the forces and    *)
(* the integration of the positions are left out, a step moves each        *)
(* distance by at most one unit.                                           *)
(***************************************************************************)
MaxXovers == 2      \* cross-overs of the design
MaxDist == 11       \* largest real_dist

DistAc == 1         \* dist_ac(parameters)
StretchFactor == 10 \* real_dist > dist_ac(parameters) * 10.

Xovers == 1..MaxXovers
RealDists == 1..MaxDist

\* spring_force: what it writes through time_scale: &mut bool
spring_force(real_dist, time_scale) ==
    IF real_dist > DistAc * StretchFactor THEN TRUE ELSE time_scale

\* for (n1, n2) in data.xovers.iter() { spring_force(.., &mut update_scale) }
RECURSIVE UpdateScale(_, _, _)
UpdateScale(xovers, i, update_scale) ==
    IF i > Len(xovers) THEN update_scale
    ELSE UpdateScale(xovers, i + 1, spring_force(xovers[i], update_scale))

\* SpringSystem::update_acceleration: the time scale it leaves
SpringUpdateAcceleration(time_scale, xovers) ==
    IF UpdateScale(xovers, 1, FALSE) THEN 10 ELSE time_scale

\* RollSystem::solve_one_step: the time scale used for dt
RollSolveOneStep(time_scale) == 1

\* SpringSystem::solve_one_step: the time scale used for dt
SpringSolveOneStep(time_scale, xovers) == SpringUpdateAcceleration(time_scale, xovers)

\* the distances that one step of integration can lead to
StepsFrom(xovers) ==
    {next \in [1..Len(xovers) -> RealDists] :
        \A i \in 1..Len(xovers) : next[i] - xovers[i] \in {-1, 0, 1}}

\* PhysicalSystem::from_design
FromDesign ==
    /\ UNCHANGED notSpr
    /\ physical = None
    /\ \E n \in 0..MaxXovers, roll \in BOOLEAN, springs \in BOOLEAN :
          \E xovers \in [1..n -> RealDists] :
             physical' = Some([xovers |-> xovers, roll |-> roll, springs |-> springs,
                               roller |-> [time_scale |-> 1],
                               springer |-> [time_scale |-> 1]])
    /\ spr_op' = None

\* PhysicalSystem::run, one pass through the body of the loop
PhysicalLoop ==
    /\ UNCHANGED notSpr
    /\ physical # None
    /\ LET p == physical[1]
           rolled == IF p.roll THEN RollSolveOneStep(p.roller.time_scale)
                     ELSE p.roller.time_scale
           sprung == IF p.springs THEN SpringSolveOneStep(p.springer.time_scale, p.xovers)
                     ELSE p.springer.time_scale
       IN  /\ \E next \in IF p.springs THEN StepsFrom(p.xovers) ELSE {p.xovers} :
                physical' = Some([p EXCEPT !.roller.time_scale = rolled,
                                           !.springer.time_scale = sprung,
                                           !.xovers = next])
           /\ spr_op' = IF p.springs
                           THEN Some([time_scale |-> sprung, xovers |-> p.xovers])
                           ELSE spr_op

InitSpr ==
    /\ physical = None
    /\ spr_op = None

NextSpr ==
    \/ FromDesign
    \/ PhysicalLoop

vars == <<simVars, dlgVars, desVars, autVars, flatVars, scnVars, barVars, ivlVars,
          helVars,
          brnVars,
          clkVars,
          sprVars>>

Init ==
    /\ InitSim /\ InitDlg /\ InitDes /\ InitAut /\ InitFlat /\ InitScn /\ InitBar
    /\ InitIvl /\ InitHel
    /\ InitBrn
    /\ InitClk
    /\ InitSpr

NextSim ==
    \/ RigidBodyRequest
    \/ HelixSimulationRequest
    \/ UndoGridSimulation
    \/ UndoHelixSimulation
    \/ CheckRigidBody
    \/ RecvGrid
    \/ CheckSimulation
    \/ RecvHelix
    \/ \E t \in Tid : ThreadHead(t)
    \/ \E t \in Tid : ThreadBody(t)
    \/ \E t \in Tid : ThreadExit(t)

SpecSim == Init /\ [][NextSim]_vars

\* the simulation threads are scheduled, and so is the thread owning Data
\* once the state it waits for has been sent; the two simulators share no
\* handle, flag or sender, the polls are followed for one kind of simulation
\* in a behaviour
OnlyKind(kind) == \A t \in Tid : threads[t].kind \in {"none", kind}

NextPoll ==
    \/ OnlyKind("grid") /\ RigidBodyRequest
    \/ OnlyKind("helix") /\ HelixSimulationRequest
    \/ CheckRigidBody
    \/ RecvGrid
    \/ CheckSimulation
    \/ RecvHelix
    \/ \E t \in Tid : ThreadHead(t) \/ ThreadBody(t) \/ ThreadExit(t)

SpecSimLive ==
    /\ Init /\ [][NextPoll]_vars
    /\ \A t \in Tid : WF_vars(ThreadHead(t) \/ ThreadBody(t) \/ ThreadExit(t))
    /\ WF_vars(RecvGrid \/ RecvHelix)

\* the simulations of one kind with the result of each solver step kept
NextSolve ==
    \/ OnlyKind("grid") /\ RigidBodyRequest
    \/ OnlyKind("helix") /\ HelixSimulationRequest
    \/ CheckRigidBody
    \/ RecvGrid
    \/ CheckSimulation
    \/ RecvHelix
    \/ \E t \in Tid : ThreadHead(t)
    \/ \E t \in Tid : SolverPass(t)
    \/ \E t \in Tid : ThreadExit(t)

SpecSolve == Init /\ [][NextSolve]_vars

SpecIvl == Init /\ [][NextIvl]_vars

SpecHel == Init /\ [][NextHel]_vars

SpecBrn == Init /\ [][NextBrn]_vars

SpecClk == Init /\ [][NextClk]_vars

SpecSpr == Init /\ [][NextSpr]_vars

SpecDlg == Init /\ [][NextDlg]_vars

SpecDes == Init /\ [][NextDes]_vars

SpecAut == Init /\ [][NextAut]_vars

\* the button whose press started the gesture a state belongs to: the one
\* kept in button_pressed, the right one for SettingPivot, the left one for
\* the states NormalState enters on a left press and those Selecting leads to
StartButton(self) ==
    IF "button_pressed" \in DOMAIN self THEN self.button_pressed
    ELSE IF self.name = "SettingPivot" THEN "Right"
    ELSE "Left"

\* the user lets go of the button that started the gesture
ReleaseStart ==
    /\ UNCHANGED notAut
    /\ ctrl_state.name \notin {"NormalState", "WaitDoubleClick"}
    /\ LET event == MouseInput("Released", StartButton(ctrl_state))
       IN  \E position \in Positions :
              \E c \in Contexts(ctrl_state, event) :
                 Handled("input", event, position, c,
                         input(ctrl_state, event, position, c, now))

\* the automaton with a user who lets go of the button sooner or later, a
\* clock that goes on and a caller that keeps checking the timers
SpecAutLive ==
    /\ Init /\ [][NextAut]_vars
    /\ WF_vars(ReleaseStart)
    /\ WF_vars(Tick)
    /\ WF_vars(CheckTimers)

SpecFlat == Init /\ [][NextFlat]_vars

SpecScn == Init /\ [][NextScn]_vars

SpecBar == Init /\ [][NextBar]_vars

SceneStep == <<scene, scn_op>>' # <<scene, scn_op>>

\* C18: no lookup of an element that is absent from the design makes the
\* program panic: the 3D scene never reaches a failed unwrap.
C18_NoPanic == ~scene.panicked

\* C19: a pick that reads the colour 0xFFFFFF is a miss: click_on leaves the
\* selection empty and check_on leaves the candidates empty, the other set
\* and the pivot are untouched and nothing panics.
C19_BackgroundIsAMiss ==
    [][(SceneStep /\ scn_op'.call \in {"click_on", "check_on"} /\ scn_op'.id = Background)
          => /\ scn_op'.call = "click_on"
                  => /\ scene'.selected = <<>>
                     /\ scene' = [scene EXCEPT !.selected = <<>>]
             /\ scn_op'.call = "check_on"
                  => /\ scene'.candidates = <<>>
                     /\ scene' = [scene EXCEPT !.candidates = <<>>]
             /\ ~scene'.panicked]_vars

\* a click on the background has emptied a selection that held an element,
\* while the candidates still hold one
C19_Witness ==
    /\ scn_op = [call |-> "click_on", id |-> Background]
    /\ scene.selected = <<>>
    /\ scene.pivot # None
    /\ scene.candidates # <<>>
    /\ ~scene.panicked

CutCrossSameHelix(csq) ==
    csq.kind = "CutCross" /\ helix_of(csq.from) = helix_of(csq.to)

\* C16: a CutCross consequence whose two nucleotides are on the same helix
\* makes no call on the mediator (no CrossCut operation is built) and leaves
\* the flatscene as it was, and every CrossCut operation handed to the
\* mediator ends on a nucleotide reached from another helix.
C16_SameHelixCutCross ==
    [][/\ CutCrossSameHelix(flat_op') => mediator' = mediator /\ flat' = flat
       /\ (/\ mediator' # mediator
           /\ mediator'[1].call = "update_opperation"
           /\ mediator'[1].kind = "CrossCut")
             => /\ flat_op'.kind = "CutCross"
                /\ helix_of(flat_op'.from) # helix_of(flat_op'.to)
                /\ mediator'[1].nucl = flat_op'.to]_vars

\* a CutCross between the two nucleotides of one strand of one helix was
\* read, and the mediator has been given nothing
C16_Witness ==
    /\ CutCrossSameHelix(flat_op)
    /\ flat_op.from # flat_op.to
    /\ get_strand_id(data.strands, flat_op.from) # None
    /\ get_strand_id(data.strands, flat_op.to) # None
    /\ mediator = None

EchoOfFlatScene(n) ==
    /\ n.kind \in {"Selection3D", "NewCandidate", "CenterSelection"}
    /\ n.app_id = "FlatScene"

\* C17: a Selection3D, NewCandidate or CenterSelection notification tagged
\* AppId::FlatScene leaves the selection, the candidates, the two cameras and
\* the split state of the flatscene unchanged, and makes no call on the
\* mediator.
C17_EchoIgnored ==
    [][EchoOfFlatScene(flat_op') => flat' = flat /\ mediator' = mediator]_vars

\* the flatscene was told to centre on a far bound by itself: the selection
\* it holds is another one and the view is not split
C17_Witness ==
    /\ EchoOfFlatScene(flat_op)
    /\ flat_op.kind = "CenterSelection"
    /\ flat_op.selection = <<"far_bound">>
    /\ flat.selection = <<"nucleotide">>
    /\ flat.candidates = <<"nucleotide">>
    /\ ~flat.splited


(***************************************************************************)
(* Claims about the simulation threads                                     *)
(***************************************************************************)
Alive(t) == threads[t].pc \in {"head", "body", "clear"}

AliveOf(kind) == {t \in Tid : threads[t].kind = kind /\ Alive(t)}

HandleOf(kind) == IF kind = "grid" THEN rigid_body_ptr ELSE rigid_helix_simulator

\* C1 (as stated): at every moment at most one grid simulation thread and at
\* most one free-helix simulation thread is alive.
C1_AtMostOneThreadAlive ==
    \A kind \in {"grid", "helix"} : Cardinality(AliveOf(kind)) <= 1

\* C1 (amended): of each kind at most one thread has its stop flag unset, and it
\* is the thread whose handle the design holds; every other thread of that kind
\* has been asked to stop and is at most finishing its last loop iteration.
C1_AtMostOneUnstopped ==
    \A t \in Tid :
        threads[t].pc # "unborn" =>
            /\ ~threads[t].stop <=> HandleOf(threads[t].kind) = Some(t)
            /\ ~threads[t].stop => Alive(t)

\* Two grid threads alive at once: the first was asked to stop, the second runs.
C1_Witness ==
    \E t1, t2 \in Tid :
        /\ t1 # t2
        /\ threads[t1].kind = "grid" /\ threads[t2].kind = "grid"
        /\ Alive(t1) /\ threads[t1].stop
        /\ Alive(t2) /\ rigid_body_ptr = Some(t2)

IsRequest == sim_op.op \in {"grid_request", "helix_request"}

RequestKind == IF sim_op.op = "grid_request" THEN "grid" ELSE "helix"

C4_StopObservedAtLoopHead ==
    [][\A t \in Tid :
          /\ (threads[t].stop /\ threads[t].pc = "head")
                => threads'[t].pc \in {"head", "clear"}
          /\ threads[t].pc = "clear" => threads'[t].pc \in {"clear", "exited"}
          /\ threads[t].pc = "exited" => threads'[t].pc = "exited"]_vars

\* A thread stopped by a request has left its loop and exited.
C4_Witness ==
    \E t \in Tid : threads[t].stop /\ threads[t].pc = "exited"


(***************************************************************************)
(* Claims about the file dialogs                                           *)
(***************************************************************************)
\* C3: at most one native file dialog is open at any time, and a
\* FileAddRequested or FileSaveRequested message handled while a dialog is
\* open spawns no dialog thread and changes nothing.
C3_OneDialog ==
    /\ [](Cardinality({d \in Did : Open(d)}) <= 1)
    /\ [](dlg_op.found_open => dlg_op.spawned = 0)
    /\ [][(AnyOpen /\ dlg_op' # dlg_op)
             => UNCHANGED <<dialoging, dialogs, nb_dialogs, file_add, file_save>>]_vars

\* A file message was handled, and ignored, while a dialog was open.
C3_Witness ==
    /\ AnyOpen
    /\ dlg_op.found_open
    /\ dlg_op.spawned = 0
    /\ nb_dialogs = 1

(***************************************************************************)
(* Claims about the Design facade                                          *)
(***************************************************************************)
QuietAfter(last) == last.again /\ last.prev # None => last.content = None

\* C5 (as stated): view_was_updated and data_was_updated report each change
\* at most once: a poll that follows a poll which returned a notification,
\* with no change of the design in between, returns None.
C5_NoneUntilNextChange == QuietAfter(notified.view) /\ QuietAfter(notified.data)

\* C5 (amended): a poll of view_was_updated that follows one which returned
\* a notification, with no change in between, returns None, and so does a
\* poll of data_was_updated that follows one which returned InstanceChanged;
\* a poll of data_was_updated that follows one which returned ViewNeedReset
\* returns None or, once, a pending InstanceChanged.
C5_NoneAfterInstanceChanged ==
    /\ QuietAfter(notified.view)
    /\ notified.data.again /\ notified.data.prev = Some(InstanceChanged)
          => notified.data.content = None
    /\ notified.data.again /\ notified.data.prev = Some(ViewNeedReset)
          => notified.data.content \in {None, Some(InstanceChanged)}

C5_Witness ==
    /\ notified.data.again
    /\ notified.data.prev = Some(InstanceChanged)
    /\ notified.data.content = None
    /\ des_op.op.kind \in Flagged

Reversible == Flagged \cup {"RawHelixCreation"}

Called == des_op' # des_op

C8_SelfXoverMakesCycle ==
    [][Called /\ des_op'.op.kind = "Xover"
              /\ des_op'.op.prime5_id = des_op'.op.prime3_id =>
        LET id == des_op'.op.prime5_id
        IN  /\ data.strands[id] # None
            /\ data'.strands =
                  [data.strands EXCEPT ![id] =
                      Some(Strand(data.strands[id][1].domains, ~des_op'.op.undo))]]_vars

C8_Witness ==
    /\ des_op.reverse
    /\ des_op.op.kind = "Xover"
    /\ des_op.op.prime5_id = des_op.op.prime3_id
    /\ des_op.result.init[des_op.op.prime5_id][1].cyclic
    /\ ~data.strands[des_op.op.prime5_id][1].cyclic

(***************************************************************************)
(* Claims about the controller automaton of the 3D scene                   *)
(***************************************************************************)
\* a call of input or check_timers that is recorded
HandlerStep == <<ctrl_state, aut_op>>' # <<ctrl_state, aut_op>>

\* C9: in WaitDoubleClick a left release handled 249 ms after the first
\* one emits DoubleClick(element) and returns to NormalState; the timer
\* check made 251 ms after the first release (any check later than 250 ms)
\* returns to NormalState with no consequence, an earlier check changes
\* nothing; DoubleClick is emitted by WaitDoubleClick only, so after the
\* return a left press opens a new Selecting with its own click_date and no
\* consequence, and its release emits ElementSelected, not DoubleClick.
C9_DoubleClickUntilTimerCheck ==
    [][HandlerStep =>
        LET op == aut_op'
            waiting == ctrl_state.name = "WaitDoubleClick"
        IN  /\ waiting /\ op.call = "input" /\ Released(op.event, "Left") =>
                 /\ op.consequences = OnElement("DoubleClick", ctrl_state.element)
                 /\ ctrl_state' = NormalState(ctrl_state.mouse_position)
            /\ waiting /\ op.call = "check_timers" =>
                 IF as_millis(now - ctrl_state.click_date) > DoubleClickDelay
                 THEN /\ ctrl_state' = NormalState(ctrl_state.mouse_position)
                      /\ op.consequences = Nothing
                 ELSE ctrl_state' = ctrl_state /\ op.consequences = Nothing
            /\ op.consequences.kind = "DoubleClick" => waiting
            /\ ctrl_state.name = "NormalState" /\ ctrl_state'.name = "Selecting" =>
                 /\ Pressed(op.event, "Left")
                 /\ op.consequences = Nothing
                 /\ ctrl_state'.click_date = now'
            /\ ctrl_state.name = "Selecting" /\ op.call = "input"
                                             /\ Released(op.event, "Left") =>
                 /\ ctrl_state'.name = "WaitDoubleClick"
                 /\ op.consequences = ElementSelected(ctrl_state.element, ctrl_state.adding)]_vars

C9_Witness ==
    /\ aut_op.from = "WaitDoubleClick"
    /\ aut_op.consequences.kind = "DoubleClick"
    /\ aut_op.elapsed = (DoubleClickDelay - 1) * TicksPerMilli
    /\ ctrl_state.name = "NormalState"

\* C10: in Selecting, a timer check made more than 250 ms after the press
\* leads to Xovering with InitFreeXover when the element resolves to a
\* nucleotide and to NormalState otherwise, an earlier one changes nothing;
\* a cursor move of more than 5 px from the clicked position leads to
\* BuildingStrand when a strand builder can be created and to NormalState
\* otherwise, a shorter one only records the position.
C10_SelectingEscalation ==
    [][HandlerStep /\ ctrl_state.name = "Selecting" =>
        LET op == aut_op'
        IN  /\ op.call = "check_timers" =>
                 IF as_millis(now - ctrl_state.click_date) > DoubleClickDelay
                 THEN IF op.nucl
                      THEN /\ ctrl_state' = Xovering(ctrl_state.element)
                           /\ op.consequences.kind = "InitFreeXover"
                      ELSE /\ ctrl_state' = NormalState(ctrl_state.mouse_position)
                           /\ op.consequences = Nothing
                 ELSE ctrl_state' = ctrl_state /\ op.consequences = Nothing
            /\ op.call = "input" /\ op.event.type = "CursorMoved" =>
                 /\ op.consequences = Nothing
                 /\ IF position_difference(op.position, ctrl_state.clicked_position)
                          > MoveThreshold
                    THEN IF op.builder
                         THEN ctrl_state' = BuildingStrand
                         ELSE ctrl_state' = NormalState(ctrl_state.mouse_position)
                    ELSE ctrl_state' = [ctrl_state EXCEPT !.mouse_position = op.position]
            /\ ctrl_state'.name \in {"Xovering", "BuildingStrand"} =>
                 op.call = "check_timers" <=> ctrl_state'.name = "Xovering"]_vars

C10_Witness ==
    /\ ctrl_state.name = "Xovering"
    /\ aut_op.from = "Selecting"
    /\ aut_op.call = "check_timers"
    /\ aut_op.consequences.kind = "InitFreeXover"
    /\ as_millis(aut_op.elapsed) = DoubleClickDelay + 1

\* a recorded left press handled by NormalState
LeftPressInNormalState ==
    HandlerStep /\ ctrl_state.name = "NormalState" /\ aut_op'.call = "input"
                /\ Pressed(aut_op'.event, "Left")

\* C11 (as stated): a left press in NormalState chooses its successor by
\* priority: Alt gives TranslatingCamera; otherwise pasting gives Pasting;
\* otherwise a grid with mode BuildHelix and a lattice intersection gives
\* BuildingHelix; otherwise a translation handle gives TranslatingWidget
\* with InitTranslation and a rotation circle RotatingWidget with
\* InitRotation; every other left press gives Selecting.
C11_EveryOtherPressSelects ==
    [][LeftPressInNormalState =>
        LET op == aut_op'
            c == aut_op'.c
        IN  IF c.alt THEN ctrl_state'.name = "TranslatingCamera"
            ELSE IF c.pasting THEN ctrl_state'.name = "Pasting"
            ELSE IF c.element = Some("grid") /\ c.mode = "BuildHelix" /\ c.intersection
            THEN ctrl_state'.name = "BuildingHelix"
            ELSE IF c.element = Some("handle")
            THEN ctrl_state' = TranslatingWidget /\ op.consequences.kind = "InitTranslation"
            ELSE IF c.element = Some("circle")
            THEN ctrl_state' = RotatingWidget /\ op.consequences.kind = "InitRotation"
            ELSE ctrl_state'.name = "Selecting"]_vars

\* C11 (amended): the same priority, except that a left press on a widget
\* element that is neither a translation handle nor a rotation circle keeps
\* NormalState with no consequence; every left press that falls under none
\* of these rules gives Selecting, and only the widget rules emit a
\* consequence.
C11_LeftPressPriority ==
    [][LeftPressInNormalState =>
        LET op == aut_op'
            c == aut_op'.c
        IN  IF c.alt
            THEN ctrl_state'.name = "TranslatingCamera" /\ op.consequences = Nothing
            ELSE IF c.pasting
            THEN ctrl_state' = Pasting(op.position, c.element) /\ op.consequences = Nothing
            ELSE IF c.element = Some("grid") /\ c.mode = "BuildHelix" /\ c.intersection
            THEN ctrl_state' = BuildingHelix(op.position) /\ op.consequences = Nothing
            ELSE IF c.element = Some("handle")
            THEN ctrl_state' = TranslatingWidget /\ op.consequences.kind = "InitTranslation"
            ELSE IF c.element = Some("circle")
            THEN ctrl_state' = RotatingWidget /\ op.consequences.kind = "InitRotation"
            ELSE IF c.element = Some("widget")
            THEN ctrl_state' = ctrl_state /\ op.consequences = Nothing
            ELSE /\ ctrl_state'.name = "Selecting"
                 /\ ctrl_state'.clicked_position = op.position
                 /\ ctrl_state'.adding = (c.shift \/ c.ctrl)
                 /\ op.consequences = Nothing]_vars

C11_Witness ==
    /\ aut_op.from = "NormalState"
    /\ Pressed(aut_op.event, "Left")
    /\ aut_op.c.pasting /\ ~aut_op.c.alt
    /\ aut_op.c.element = Some("grid") /\ aut_op.c.mode = "BuildHelix" /\ aut_op.c.intersection
    /\ ctrl_state.name = "Pasting"

\* a recorded cursor move handled by a state that tells a click from a drag
DragTest ==
    /\ HandlerStep /\ aut_op'.call = "input" /\ aut_op'.event.type = "CursorMoved"
    /\ ctrl_state.name \in {"SettingPivot", "Selecting", "WaitDoubleClick",
                            "BuildingHelix", "Pasting"}

\* C12: in SettingPivot, Selecting, WaitDoubleClick, BuildingHelix and
\* Pasting a cursor move leaves the state exactly when max(|dx|, |dy|)
\* between the cursor and the clicked position exceeds 5 pixels; at 5 or
\* less the state is kept, with its clicked position and no consequence.
C12_DragThreshold ==
    [][DragTest =>
        LET p == aut_op'.position
            q == ctrl_state.clicked_position
            dx == IF p[1] < q[1] THEN q[1] - p[1] ELSE p[1] - q[1]
            dy == IF p[2] < q[2] THEN q[2] - p[2] ELSE p[2] - q[2]
            far == dx > 5 \/ dy > 5
        IN  /\ far <=> ctrl_state'.name # ctrl_state.name
            /\ far <=> aut_op'.changed
            /\ ~far => ctrl_state'.clicked_position = q /\ aut_op'.consequences = Nothing]_vars

C12_Witness ==
    /\ aut_op.call = "input" /\ aut_op.event.type = "CursorMoved"
    /\ aut_op.from = "Pasting" /\ ctrl_state.name = "Pasting"
    /\ aut_op.position = <<5, 0>> /\ ctrl_state.clicked_position = <<0, 0>>

\* C13: the Selecting state opened by a left press holds the element under
\* the cursor at the press (the lattice circle when a grid is hit on one)
\* and adding = shift or ctrl/cmd held at the press; both are kept while
\* the state is Selecting; a left release in Selecting emits
\* ElementSelected(element, adding) with these values and moves to
\* WaitDoubleClick, which holds the same element and clicked position.
C13_ReleaseSelects ==
    [][HandlerStep =>
        LET op == aut_op'
            c == aut_op'.c
        IN  /\ ctrl_state.name = "NormalState" /\ ctrl_state'.name = "Selecting" =>
                 /\ ctrl_state'.adding = (c.shift \/ c.ctrl)
                 /\ ctrl_state'.element =
                       IF c.element = Some("grid") /\ c.intersection
                       THEN Some("grid_circle") ELSE c.element
            /\ ctrl_state.name = "Selecting" /\ ctrl_state'.name = "Selecting" =>
                 /\ ctrl_state'.adding = ctrl_state.adding
                 /\ ctrl_state'.element = ctrl_state.element
            /\ ctrl_state.name = "Selecting" /\ op.call = "input"
                                             /\ Released(op.event, "Left") =>
                 /\ op.consequences = [kind |-> "ElementSelected",
                                       element |-> ctrl_state.element,
                                       adding |-> ctrl_state.adding]
                 /\ ctrl_state'.name = "WaitDoubleClick"
                 /\ ctrl_state'.element = ctrl_state.element
                 /\ ctrl_state'.clicked_position = ctrl_state.clicked_position
            /\ op.consequences.kind = "ElementSelected" => ctrl_state.name = "Selecting"]_vars

C13_Witness ==
    /\ aut_op.from = "Selecting" /\ Released(aut_op.event, "Left")
    /\ aut_op.consequences.kind = "ElementSelected"
    /\ aut_op.consequences.adding /\ aut_op.consequences.element = Some("nucl")
    /\ ctrl_state.name = "WaitDoubleClick"

\* C14: TranslatingCamera is left only by the release of the button that
\* started it; that release returns to NormalState at the last cursor
\* position with consequence MovementEnded; entering TranslatingCamera
\* fires InitMovement and leaving it fires EndMovement.
C14_TranslatingCameraBracket ==
    [][HandlerStep =>
        LET op == aut_op'
            translating == ctrl_state.name = "TranslatingCamera"
        IN  /\ translating /\ op.call = "input"
                           /\ Released(op.event, ctrl_state.button_pressed) =>
                 /\ ctrl_state' = NormalState(ctrl_state.mouse_position)
                 /\ op.consequences = [kind |-> "MovementEnded"]
            /\ translating /\ op.changed =>
                 /\ Released(op.event, ctrl_state.button_pressed)
                 /\ op.hooks = <<"EndMovement", "Nothing">>
            /\ translating /\ ~op.changed =>
                 /\ ctrl_state'.name = "TranslatingCamera"
                 /\ ctrl_state'.button_pressed = ctrl_state.button_pressed
            /\ ~translating /\ ctrl_state'.name = "TranslatingCamera" =>
                 /\ op.hooks = <<"Nothing", "InitMovement">>
                 /\ Pressed(op.event, ctrl_state'.button_pressed)]_vars

C14_Witness ==
    /\ aut_op.from = "TranslatingCamera" /\ Released(aut_op.event, "Middle")
    /\ aut_op.consequences.kind = "MovementEnded"
    /\ aut_op.hooks = <<"EndMovement", "Nothing">>
    /\ ctrl_state.name = "NormalState"

\* C15: in SettingPivot a cursor move of more than 5 pixels from the
\* clicked position leads to RotatingCamera, pivoting on the clicked
\* position with the right button; a shorter move keeps SettingPivot; the
\* right release emits PivotElement(element) for the element picked at
\* that moment and returns to NormalState; nothing else leaves the state.
C15_SettingPivot ==
    [][HandlerStep /\ ctrl_state.name = "SettingPivot" =>
        LET op == aut_op'
            far == position_difference(op.position, ctrl_state.clicked_position) > 5
        IN  /\ op.call = "input"
            /\ op.event.type = "CursorMoved" =>
                 IF far
                 THEN /\ ctrl_state' = RotatingCamera(ctrl_state.clicked_position, "Right")
                      /\ op.consequences = Nothing
                 ELSE /\ ctrl_state'.name = "SettingPivot"
                      /\ ctrl_state'.clicked_position = ctrl_state.clicked_position
            /\ Released(op.event, "Right") =>
                 /\ ctrl_state' = NormalState(op.position)
                 /\ op.consequences = [kind |-> "PivotElement", element |-> op.c.element]
            /\ op.changed => op.event.type = "CursorMoved" \/ Released(op.event, "Right")]_vars

C15_Witness ==
    /\ aut_op.from = "SettingPivot" /\ Released(aut_op.event, "Right")
    /\ aut_op.consequences = [kind |-> "PivotElement", element |-> Some("nucl")]
    /\ ctrl_state.name = "NormalState"

\* C20: every path posted by a save dialog ends in .json: a chosen path
\* without extension gets .json appended, a path ending in .txt becomes
\* .txt.json, and a path ending in .json is posted as it is.
C20_SavePathEndsInJson ==
    [][/\ file_save' # None => extension(file_save'[1][1]) = Some("json")
       /\ \A d \in Did :
             (/\ Open(d)
              /\ dialogs'[d].pc = "answered"
              /\ dialogs'[d].kind = "save"
              /\ dialogs'[d].file # None)
             => LET path == dialogs'[d].file[1]
                    posted == file_save'[1][1]
                IN  /\ file_save' # None
                    /\ file_save'[1][2] = dialogs[d].keep_proceed
                    /\ extension(path) = None => posted = path \o <<"json">>
                    /\ extension(path) = Some("txt") => posted = path \o <<"json">>
                    /\ extension(path) = Some("json") => posted = path]_vars

\* the save dialog was answered with design.txt and design.txt.json is posted
C20_Witness ==
    \E d \in Did :
        /\ dialogs[d].pc = "answered"
        /\ dialogs[d].kind = "save"
        /\ dialogs[d].file = Some(<<"design", "txt">>)
        /\ file_save = Some(<<<<"design", "txt", "json">>, dialogs[d].keep_proceed>>)

\* C21: TopBar::update is given Message::Undo only while can_undo of its
\* application_state is true, and Message::Redo only while can_redo is true;
\* an undo or redo request appears in Requests only in an update of the
\* runtime that was given that message.
C21_DisabledButtonsPostNothing ==
    [][/\ \A i \in DOMAIN bar_op' :
             /\ bar_op'[i].message.type = "Undo" => bar_op'[i].found.can_undo
             /\ bar_op'[i].message.type = "Redo" => bar_op'[i].found.can_redo
       /\ (bar.requests.undo = None /\ bar'.requests.undo # None)
             => /\ bar.application_state.can_undo
                /\ \E i \in DOMAIN bar_op' : bar_op'[i].message.type = "Undo"
       /\ (bar.requests.redo = None /\ bar'.requests.redo # None)
             => /\ bar.application_state.can_redo
                /\ \E i \in DOMAIN bar_op' : bar_op'[i].message.type = "Redo"]_vars

\* the undo button was pressed in the update in which the main loop's
\* message took can_undo away: the request is posted, the flag is now false
C21_Witness ==
    /\ Len(bar_op) = 2
    /\ bar_op[1].message.type = "Undo"
    /\ bar_op[2].message.type = "NewApplicationState"
    /\ ~bar.application_state.can_undo
    /\ bar.requests.undo # None

Polling == main_pc \in {"recv_grid", "recv_helix"}

PolledThread == HandleOf(IF main_pc = "recv_grid" THEN "grid" ELSE "helix")

\* C23: a state request is in a slot only while the thread owning Data is
\* blocked on the receive, and then in the slot of the running thread it
\* holds the handle of, which is inside its loop; until it is answered the
\* channel is empty.  The pass through the loop body that finds the request
\* sends the state the thread has at that moment, once, and empties the
\* slot; nothing is sent by any other step, and nothing is left in the
\* channel once the poll has returned.
C23_OneAnswerPerRequest ==
    /\ [](\A t \in Tid :
             threads[t].sender
                => /\ Polling
                   /\ PolledThread = Some(t)
                   /\ ~threads[t].stop
                   /\ threads[t].pc \in {"head", "body"}
                   /\ channel = None)
    /\ [](Polling => \/ channel = None /\ threads[PolledThread[1]].sender
                     \/ channel # None /\ \A t \in Tid : ~threads[t].sender)
    /\ [](~Polling => channel = None)
    /\ [][\A t \in Tid :
             /\ (threads[t].sender /\ threads[t].pc = "body" /\ threads'[t].pc = "head")
                   => /\ channel' = Some(get_state(threads[t].kind, threads[t].val))
                      /\ ~threads'[t].sender
             /\ (channel = None /\ channel' # None)
                   => \E u \in Tid : threads[u].sender /\ threads[u].pc = "body"
                                     /\ threads'[u].pc = "head"]_vars

\* the request of a poll of the grid simulation was answered with the state
\* reached after a solver step, and the slot is empty
C23_Witness ==
    /\ main_pc = "recv_grid"
    /\ channel = Some(get_state("grid", BodyPosition(1)))
    /\ ~threads[rigid_body_ptr[1]].sender
    /\ threads[rigid_body_ptr[1]].pc = "head"

\* C24: a poll that has placed its request and blocks on the receive
\* returns: the thread it waits for is running (not asked to stop, not
\* exited) for as long as the poll lasts, the first pass of that thread
\* through its loop body answers the request, and the poll ends.
C24_PollReturns ==
    /\ (Polling ~> main_pc = "idle")
    /\ [](Polling => /\ PolledThread # None
                     /\ ~threads[PolledThread[1]].stop
                     /\ threads[PolledThread[1]].pc \in {"head", "body"})
    /\ [][(/\ Polling /\ channel = None
           /\ threads[PolledThread[1]].pc = "body"
           /\ threads'[PolledThread[1]].pc = "head")
             => channel' # None]_vars

\* a poll of the helix simulation has returned with the state reached after
\* a solver step
C24_Witness ==
    /\ sim_op.op = "check_helix"
    /\ main_pc = "idle"
    /\ helix_state = 1
    /\ rigid_helix_simulator # None

\* C25: in the loop of a simulation thread a failed solver step leaves the
\* last state as it was and a successful one replaces it by the last state
\* computed; after either the thread is back at the test of its loop, and a
\* thread leaves its loop only once its stop flag is set.
C25_FailedStepKeepsState ==
    /\ [][\A t \in Tid :
            (threads[t].pc = "body" /\ threads'[t].pc # "body")
               => /\ threads'[t].pc = "head"
                  /\ solve_op' # None
                  /\ solve_op'[1].thread = t
                  /\ solve_op'[1].before = threads[t].val
                  /\ ~solve_op'[1].ok => threads'[t].val = threads[t].val
                  /\ solve_op'[1].ok => threads'[t].val = threads[t].val + 1]_vars
    /\ [][\A t \in Tid : threads'[t].val # threads[t].val
            => \/ threads[t].pc \in {"unborn", "clear"}
               \/ solve_op'[1].ok /\ solve_op'[1].thread = t]_vars
    /\ [](\A t \in Tid : threads[t].pc \in {"clear", "exited"} => threads[t].stop)

\* a step of a running thread has failed, the thread is in its loop with the
\* state it had, after an earlier step that succeeded
C25_Witness ==
    /\ solve_op # None
    /\ ~solve_op[1].ok
    /\ threads[solve_op[1].thread].pc = "body"
    /\ ~threads[solve_op[1].thread].stop
    /\ threads[solve_op[1].thread].val = solve_op[1].before
    /\ solve_op[1].before = BodyPosition(1)

\* C26: after read_intervals the keys of nucl_map are the nucleotides of the
\* design, the entry of a nucleotide carries its position and direction, and
\* it names a rigid segment exactly when the complement of the nucleotide is
\* in the design (it is a free nucleotide otherwise).
C26_EveryNuclClassified ==
    interval_results # None =>
        LET r == interval_results[1]
            nucls == identifier_nucl(strand_domains)
        IN  /\ DOMAIN r.nucl_map = nucls
            /\ \A n \in nucls :
                  /\ r.nucl_map[n].position = n.position
                  /\ r.nucl_map[n].forward = n.forward
                  /\ (r.nucl_map[n].helix # None) <=> (compl(n) \in nucls)
                  /\ (r.nucl_map[n].helix = None) => r.nucl_map[n].old_helix = Some(n.helix)

\* read_intervals has run on a design with a doubled nucleotide and a
\* nucleotide without complement, both backward
C26_Witness ==
    /\ interval_results # None
    /\ \E n, m \in identifier_nucl(strand_domains) :
          /\ ~n.forward /\ ~m.forward
          /\ compl(n) \in identifier_nucl(strand_domains)
          /\ compl(m) \notin identifier_nucl(strand_domains)
          /\ interval_results[1].nucl_map[n].helix # None
          /\ interval_results[1].nucl_map[m].helix = None

\* the nucleotides read_intervals maps to segment i
SegmentNucls(r, i) == {n \in DOMAIN r.nucl_map : r.nucl_map[n].helix = Some(i)}

\* C27: helix_map and intervals have the same length, and the nucleotides
\* mapped to segment i lie on helix helix_map[i], come with their
\* complements, have the positions min..max of intervals[i], min <= max, and
\* no doubled nucleotide of that helix is next to the interval.
C27_SegmentsAreRuns ==
    interval_results # None =>
        LET r == interval_results[1]
            nucls == identifier_nucl(strand_domains)
        IN  /\ Len(r.helix_map) = Len(r.intervals)
            /\ \A i \in 0..(Len(r.helix_map) - 1) :
                  LET min == r.intervals[i + 1][1]
                      max == r.intervals[i + 1][2]
                      h == r.helix_map[i + 1]
                  IN  /\ min <= max
                      /\ \A n \in SegmentNucls(r, i) :
                            n.helix = h /\ compl(n) \in SegmentNucls(r, i)
                      /\ {n.position : n \in SegmentNucls(r, i)} = min..max
                      /\ \A p \in {min - 1, max + 1} :
                            ~(Nucl(h, p, TRUE) \in nucls /\ Nucl(h, p, FALSE) \in nucls)

\* C28: every free nucleotide is at exactly one index of free_nucls,
\* free_nucl_ids gives that index, and free_nucl_position holds the position
\* of the nucleotide at that index.
C28_FreeNuclsOnce ==
    interval_results # None =>
        LET r == interval_results[1]
        IN  /\ Len(r.free_nucl_position) = Len(r.free_nucls)
            /\ \A n \in DOMAIN r.nucl_map :
                  r.nucl_map[n].helix = None =>
                     /\ Cardinality({i \in 1..Len(r.free_nucls) :
                                        r.free_nucls[i] = r.nucl_map[n]}) = 1
                     /\ r.nucl_map[n] \in DOMAIN r.free_nucl_ids
                     /\ r.free_nucls[r.free_nucl_ids[r.nucl_map[n]] + 1] = r.nucl_map[n]
                     /\ r.free_nucl_position[r.free_nucl_ids[r.nucl_map[n]] + 1]
                            = space_position(n)

\* the step applies a new operation of that kind to the whole design
DesignIsometry(kind) ==
    /\ des_op'.count = des_op.count + 1
    /\ des_op'.op.kind = kind
    /\ des_op'.op.target = "Design"

\* C29: a translation or a rotation of the whole design sets the model
\* matrix to the isometry applied to old_matrix, whatever the model matrix
\* was, and leaves old_matrix alone; old_matrix changes only in
\* terminate_movement, which gives it the model matrix of the view and
\* changes neither the view nor the design.
C29_MovementFromBaseline ==
    [][/\ DesignIsometry("Translation")
          => /\ view'.model_matrix.t = controller.old_matrix.t + des_op'.op.translation
             /\ view'.model_matrix.r = controller.old_matrix.r
             /\ controller' = controller
       /\ DesignIsometry("Rotation")
          => /\ view'.model_matrix.r = controller.old_matrix.r + des_op'.op.rotation
             /\ view'.model_matrix.t = controller.old_matrix.t
             /\ controller' = controller
       /\ controller' # controller
          => /\ des_op' = des_op
             /\ view' = view
             /\ data' = data
             /\ controller'.old_matrix = view'.model_matrix]_vars

\* a rotation of the design is the second operation of a movement that has
\* not ended: the view shows the rotation applied to the identity
C29_Witness ==
    /\ des_op.op.kind = "Rotation"
    /\ des_op.op.target = "Design"
    /\ des_op.count = 2
    /\ ~des_op.reverse
    /\ controller.old_matrix = Identity
    /\ view.model_matrix = Matrix(0, 1)
    /\ des_op.origin = Content(data)
    /\ view.was_updated

\* the helix at index i of the list before the step is at index i after it,
\* with its id and its position
HelicesKept(before, after) ==
    /\ Len(after) >= Len(before)
    /\ \A i \in 1..Len(before) :
          after[i].id = before[i].id /\ after[i].position = before[i].position

EntriesOf(hs, i) == {k \in 1..Len(hs.brownian_heap) : hs.brownian_heap[k].nucl_id = i}

\* C31 (as stated): every free nucleotide of the system has exactly one
\* entry in the Brownian heap.
C31_OneEntryPerFreeNucl ==
    helix_system # None =>
        \A i \in FreeIds(helix_system[1].free_nucls) :
            Cardinality(EntriesOf(helix_system[1], i)) = 1

\* C31 (amended): a free nucleotide that is not anchored has exactly one
\* entry in the Brownian heap and an anchored one has none, after the
\* construction, after every pass of the loop and after update_parameters;
\* a pass that does not update the parameters changes the entry of at most
\* one nucleotide, and the new entry is not earlier than the current time.
C31_OneEntryPerUnanchoredNucl ==
    /\ [](helix_system # None =>
            /\ \A k \in 1..Len(helix_system[1].brownian_heap) :
                  helix_system[1].brownian_heap[k].nucl_id
                      \in FreeIds(helix_system[1].free_nucls)
            /\ \A i \in FreeIds(helix_system[1].free_nucls) :
                  Cardinality(EntriesOf(helix_system[1], i))
                      = IF i \in helix_system[1].free_anchors THEN 0 ELSE 1)
    /\ [][(helix_system # None /\ brn_op' = "loop") =>
             LET old == helix_system[1].brownian_heap
                 new == helix_system'[1].brownian_heap
                 moved == {e \in {new[k] : k \in 1..Len(new)} :
                              e \notin {old[k] : k \in 1..Len(old)}}
             IN  /\ Cardinality(moved) <= 1
                 /\ \A e \in moved :
                       /\ helix_system'[1].brownian_motion
                       /\ e.t >= helix_system'[1].current_time
                       /\ e.t >= helix_system'[1].next_time
                       /\ old[1].nucl_id = e.nucl_id]_vars

\* a system with an anchored free nucleotide and one that is not, the entry
\* of the latter rescheduled by a jump
C31_Witness ==
    /\ helix_system # None
    /\ brn_op = "loop"
    /\ helix_system[1].free_nucls = 2
    /\ helix_system[1].free_anchors = {0}
    /\ helix_system[1].brownian_motion
    /\ helix_system[1].current_time > 0
    /\ Len(helix_system[1].brownian_heap) = 1
    /\ helix_system[1].brownian_heap[1].t > helix_system[1].next_time

\* the state part of C39
ClockInOrder ==
    helix_system # None =>
        /\ helix_system[1].next_time >= helix_system[1].current_time
        /\ helix_system[1].next_time
               <= helix_system[1].current_time + helix_system[1].max_time_step
        /\ brn_op # "new" =>
              helix_system[1].time_span
                  = helix_system[1].next_time - helix_system[1].current_time
        /\ helix_system[1].time_span >= 0
        /\ (helix_system[1].brownian_motion /\ brn_op # "new") =>
              \A k \in 1..Len(helix_system[1].brownian_heap) :
                  helix_system[1].brownian_heap[k].t >= helix_system[1].next_time

\* C39: the clock of the free-helix system does not go backwards: next_time
\* is at least current_time and at most current_time + max_time_step, the
\* span given to the solver is their difference, and while the Brownian
\* motion is on no entry of the heap is earlier than next_time. A pass of
\* the loop moves current_time to the former next_time, which it never
\* precedes; a pass that does not update the parameters sets next_time to
\* the sooner of the earliest jump and current_time + max_time_step when
\* the Brownian motion is on and a jump is scheduled, and to current_time +
\* max_time_step otherwise.
C39_TimeGoesForward ==
    /\ []ClockInOrder
    /\ [][(helix_system # None /\ helix_system' # None) =>
             LET old == helix_system[1]
                 new == helix_system'[1]
             IN  /\ new.current_time = old.next_time
                 /\ new.current_time >= old.current_time
                 /\ new.next_time >= old.next_time
                 /\ brn_op' = "loop" =>
                       new.next_time =
                          IF old.brownian_motion /\ old.brownian_heap # <<>>
                             THEN Min(old.brownian_heap[1].t,
                                      new.current_time + old.max_time_step)
                             ELSE new.current_time + old.max_time_step]_vars

\* the Brownian motion was switched on after time has passed, and the step
\* taken is cut short by the jump scheduled first
C39_Witness ==
    /\ helix_system # None
    /\ brn_op = "update_parameters"
    /\ helix_system[1].brownian_motion
    /\ helix_system[1].current_time > 0
    /\ helix_system[1].brownian_heap # <<>>
    /\ helix_system[1].next_time
          < helix_system[1].current_time + helix_system[1].max_time_step

\* the date of the handle is the date of the start of the simulation or of
\* the request made last, whichever is later
InstantIsLastRequest ==
    (ptrs # None /\ poll_pc = "idle") =>
        /\ poll_op.op \in {"start", "request"} => ptrs[1].instant = poll_op.date
        /\ poll_op.op = "skip" => ptrs[1].instant = poll_op.since

\* C32: a poll of a running simulation asks for a snapshot exactly when the
\* whole milliseconds elapsed since the date of the handle (the start of the
\* simulation or the request before) exceed 30, and changes nothing
\* otherwise; so a request is made more than 30 ms after the request before
\* it, or after the start of the simulation.
C32_PollsThirtyMillisApart ==
    /\ [](poll_op.op = "request" =>
             poll_op.date - poll_op.since > PollDelay * TicksPerMilli)
    /\ []InstantIsLastRequest
    /\ [][(poll_op' # poll_op /\ poll_op'.op \in {"request", "skip"}) =>
             /\ ptrs # None
             /\ poll_op'.since = ptrs[1].instant
             /\ poll_op'.op = "request"
                   <=> as_millis(clock - ptrs[1].instant) > PollDelay
             /\ clock - ptrs[1].instant <= PollDelay * TicksPerMilli
                   => poll_op'.op = "skip"
             /\ poll_op'.op = "skip" => UNCHANGED <<ptrs, poll_pc, clock>>]_vars

\* the second request made to a simulation, at the first tick that allows it
C32_Witness ==
    /\ poll_op.op = "request"
    /\ poll_op.asked = 2
    /\ poll_op.since > 0
    /\ poll_op.date - poll_op.since = (PollDelay + 1) * TicksPerMilli

\* some cross-over of the step is longer than ten times the ideal distance
Stretched(xovers) ==
    \E i \in 1..Len(xovers) : xovers[i] > StretchFactor * DistAc

\* C33 (as stated): the time scale of a step of the spring system is 10
\* when some cross-over's real distance exceeds ten times the ideal
\* distance, and 1 when none does.
C33_TimeScaleOfTheStep ==
    spr_op # None =>
        spr_op[1].time_scale = IF Stretched(spr_op[1].xovers) THEN 10 ELSE 1

\* a simulation thread that runs and was not asked to stop
Active(t) == threads[t].pc \in {"head", "body"} /\ ~threads[t].stop

\* C34 (as stated): the computing flag is true whenever some simulation
\* thread is active, and false only when none is: a thread that exits after
\* it was stopped does not clear the flag of a simulation started later.
C34_ComputingWhileActive ==
    (\E t \in Tid : Active(t)) => computing

\* the states between InitMovement and EndMovement
Moving(self) == self.name \in {"TranslatingCamera", "RotatingCamera"}

\* the hooks of a call that are not TransistionConsequence::Nothing
MovementHooks(hooks) == SelectSeq(hooks, LAMBDA h : h # "Nothing")

\* C35: the movement consequences of the hooks alternate, InitMovement
\* first: a call that enters TranslatingCamera or RotatingCamera from a
\* state that is neither fires InitMovement alone, a call that leaves one of
\* them for a state that is neither fires EndMovement alone, any other call
\* fires neither; SettingPivot is not a movement, the way from it to
\* RotatingCamera fires the InitMovement of the rotation.
C35_MovementHooksAlternate ==
    /\ [](aut_op.call = "none" => ~Moving(ctrl_state))
    /\ [][HandlerStep =>
            LET fired == MovementHooks(aut_op'.hooks)
            IN  /\ aut_op'.changed =>
                      fired = IF ~Moving(ctrl_state) /\ Moving(ctrl_state')
                                 THEN <<"InitMovement">>
                              ELSE IF Moving(ctrl_state) /\ ~Moving(ctrl_state')
                                 THEN <<"EndMovement">>
                              ELSE IF Moving(ctrl_state) /\ Moving(ctrl_state')
                                 THEN <<"EndMovement", "InitMovement">>
                              ELSE <<>>
                /\ ~aut_op'.changed =>
                      /\ fired = <<>>
                      /\ Moving(ctrl_state') <=> Moving(ctrl_state)
                /\ (ctrl_state.name = "SettingPivot"
                       /\ ctrl_state'.name = "RotatingCamera") =>
                      aut_op'.hooks = <<"Nothing", "InitMovement">>]_vars

\* the rotation entered from SettingPivot has ended
C35_Witness ==
    /\ aut_op.from = "RotatingCamera"
    /\ aut_op.changed
    /\ aut_op.hooks = <<"EndMovement", "Nothing">>
    /\ ~Moving(ctrl_state)

\* in a state other than NormalState and WaitDoubleClick, the release of
\* the button that started the gesture is answered by NormalState, or by
\* WaitDoubleClick when the state is Selecting, wherever the cursor is and
\* whatever is under it
ReleaseLeadsBack ==
    ctrl_state.name \notin {"NormalState", "WaitDoubleClick"} =>
        LET event == MouseInput("Released", StartButton(ctrl_state))
        IN  \A position \in Positions :
               \A c \in Contexts(ctrl_state, event) :
                  LET tr == input(ctrl_state, event, position, c, now)
                  IN  /\ tr.new_state # None
                      /\ tr.new_state[1].name =
                            IF ctrl_state.name = "Selecting" THEN "WaitDoubleClick"
                            ELSE "NormalState"

\* a check of the timers in WaitDoubleClick reverts to NormalState when the
\* whole milliseconds since the state was entered exceed 250, and only then
LateCheckReverts ==
    ctrl_state.name = "WaitDoubleClick" =>
        LET tr == check_timers(ctrl_state, Quiet, now)
        IN  IF as_millis(now - ctrl_state.click_date) > DoubleClickDelay
            THEN tr.new_state # None /\ tr.new_state[1].name = "NormalState"
            ELSE tr.new_state = None /\ tr.self = ctrl_state

\* C36: the automaton does not stay outside NormalState: a gesture is
\* started from NormalState by the press of a button; in every state of the
\* gesture the release of that button is answered by NormalState, or by
\* WaitDoubleClick from Selecting; WaitDoubleClick is left by the first
\* check of the timers made when more than 250 whole milliseconds have
\* passed since it was entered; so, with a user who lets go of the button
\* and a caller who keeps checking the timers, NormalState always comes back.
C36_BackToNormalState ==
    /\ []ReleaseLeadsBack
    /\ []LateCheckReverts
    /\ [][(HandlerStep /\ ctrl_state.name = "NormalState"
                       /\ ctrl_state'.name # "NormalState") =>
             Pressed(aut_op'.event, StartButton(ctrl_state'))]_vars
    /\ [][(HandlerStep /\ ctrl_state.name = "WaitDoubleClick"
                       /\ aut_op'.call = "check_timers") =>
             /\ aut_op'.changed <=> as_millis(aut_op'.elapsed) > DoubleClickDelay
             /\ aut_op'.changed => ctrl_state'.name = "NormalState"]_vars
    /\ (ctrl_state.name # "NormalState") ~> (ctrl_state.name = "NormalState")

\* WaitDoubleClick, entered from Selecting, was ended by a check of the
\* timers that found the delay over; the check before it had not
C36_Witness ==
    /\ ctrl_state.name = "NormalState"
    /\ aut_op.from = "WaitDoubleClick"
    /\ aut_op.call = "check_timers"
    /\ aut_op.changed
    /\ aut_op.elapsed = (DoubleClickDelay + 1) * TicksPerMilli

\* the thread t is the one the caller waits for in rcv.recv()
AskedThread(t) ==
    \/ main_pc = "recv_grid" /\ rigid_body_ptr = Some(t)
    \/ main_pc = "recv_helix" /\ rigid_helix_simulator = Some(t)

\* a sender is only ever in the slot of the thread of a handle, which was
\* not told to stop, and only while the caller waits for its answer
SenderOnlyInHandle ==
    \A t \in Tid : threads[t].sender => ~threads[t].stop /\ AskedThread(t)

\* after an undo the design holds the snapshot, whatever the stopped thread
\* goes on to do
SnapshotKept ==
    /\ sim_op.op = "undo_grid" =>
          /\ rigid_body_ptr = None
          /\ grid_state = read_grid_system_state(sim_op.initial_state)
    /\ sim_op.op = "undo_helix" =>
          /\ rigid_helix_simulator = None
          /\ helix_state = read_rigid_helix_state(sim_op.initial_state)

\* C37: once a simulation is stopped or undone nothing its thread computes
\* reaches the design: a state is sent only by the thread of a handle, on
\* request and before it is told to stop; the positions of the design are
\* written only by an undo, with the snapshot, and by the poll of a running
\* simulation, with the state its thread has sent; so the snapshot restored
\* by an undo stays until the caller does something else.
C37_NoWriteAfterStop ==
    /\ []SenderOnlyInHandle
    /\ []SnapshotKept
    /\ [][(channel' # channel /\ channel' # None) =>
             \E t \in Tid :
                /\ AskedThread(t)
                /\ threads[t].sender /\ ~threads[t].stop
                /\ ~threads'[t].sender
                /\ channel' = Some(get_state(threads[t].kind, threads[t].val))]_vars
    /\ [][grid_state' # grid_state =>
             \/ /\ main_pc = "idle" /\ sim_op'.op = "undo_grid"
                /\ grid_state' = read_grid_system_state(sim_op'.initial_state)
             \/ /\ main_pc = "recv_grid" /\ channel # None
                /\ rigid_body_ptr # None /\ ~threads[rigid_body_ptr[1]].stop
                /\ grid_state' = read_grid_system_state(channel[1])]_vars
    /\ [][helix_state' # helix_state =>
             \/ /\ main_pc = "idle" /\ sim_op'.op = "undo_helix"
                /\ helix_state' = read_rigid_helix_state(sim_op'.initial_state)
             \/ /\ main_pc = "recv_helix" /\ channel # None
                /\ rigid_helix_simulator # None
                /\ ~threads[rigid_helix_simulator[1]].stop
                /\ helix_state' = read_rigid_helix_state(channel[1])]_vars

\* a grid simulation was undone; its thread, told to stop, is still in its
\* loop with a state that is not the snapshot, and the design holds the
\* snapshot
C37_Witness ==
    /\ sim_op.op = "undo_grid"
    /\ sim_op.prev # None
    /\ threads[sim_op.prev[1]].stop
    /\ threads[sim_op.prev[1]].pc = "body"
    /\ get_state("grid", threads[sim_op.prev[1]].val) # sim_op.initial_state
    /\ grid_state = read_grid_system_state(sim_op.initial_state)

\* the thread of dialog d has ended
Finished(d) == dialogs[d].pc \in {"done", "panicked"}

\* C38 (as stated): once every dialog thread that was spawned has finished,
\* the user having chosen a file or cancelled, the dialoging flag is false
\* again and the next request can open a dialog.
C38_FlagClearedWhenFinished ==
    (\A d \in 1..nb_dialogs : Finished(d)) => ~dialoging

=============================================================================
